---- MODULE Spec2Model ----
(***************************************************************************)
(* State-machine model of the telemetry pipeline of SaltProphet/ST.        *)
(*                                                                         *)
(*   Spec             the sampling pipeline of src/app.py                  *)
(*                    (telemetry_stream_worker, ConnectionManager), the    *)
(*                    alert evaluator and cloud sync of src/alerts.py and  *)
(*                    the store of src/database.py                         *)
(*   SpecBroadcaster  the queue-per-subscriber Broadcaster of              *)
(*                    src/focusst_telemetry/gateway/broadcaster.py with    *)
(*                    the WebSocket handlers and the data loop of          *)
(*                    src/focusst_telemetry/gateway/app.py                 *)
(*                                                                         *)
(* Every coroutine is cut at its await points: one action per stretch of   *)
(* code between two suspension points.                                     *)
(***************************************************************************)
EXTENDS Integers, Sequences, FiniteSets, TLC

(***************************************************************************)
(* Bounds of the model.                                                    *)
(***************************************************************************)
\* batches the worker pulls from hal.stream() before the model stops pulling
MaxBatches == 2
\* capacity of CloudSync.queue in the model; the program's is
\* asyncio.Queue(maxsize=1000) (src/alerts.py:134)
CloudQueueMaxsize == 2
\* capacity of a subscriber queue in the model; the program's is
\* asyncio.Queue(maxsize=100) (src/focusst_telemetry/gateway/broadcaster.py:20)
QueueMaxsize == 2
\* broadcast() calls that enter the lock before the model stops publishing
MaxPublishes == 4
\* evaluate() calls that return before the model stops calling it
MaxEvaluations == 3
\* POST /api/alerts requests before the model stops making them
MaxCreates == 1
\* seconds the clock advances before the model stops it
MaxNow == 1
\* calls of insert_telemetry by callers other than the worker, queries and
\* runs of cleanup_old_data before the model stops making them
MaxInserts == 1
MaxQueries == 1
MaxCleanups == 1
\* batches the worker pulls while the store's callers are at work
MaxStoreBatches == 1
\* calls of read_pid and read_all before the model stops making them
MaxReads == 2
\* calls of MockECU.start_streaming and stop_streaming, and reads of a PID
\* by MockECU.read_pid, before the model stops making them
MaxStreamCalls == 4
MaxMockReads == 3

\* calls of OBDBridge.read_data
MaxPolls == 2

\* passes of TelemetryGateway._data_loop
MaxIterations == 3

(***************************************************************************)
(* Program data.                                                           *)
(***************************************************************************)
\* OBDSimulator.PIDS, cut to two PIDs; read_all() reads them in this order
PIDS == <<"RPM", "BOOST">>

\* OBDSimulator.PIDS[pid]["unit"]
UnitOf(pid) == IF pid = "RPM" THEN "RPM" ELSE "PSI"

\* the values a reading of pid may carry, within PIDS[pid]'s min and max
Values(pid) == IF pid = "RPM" THEN {3000} ELSE {18, 22}

\* Python's None where a data point is expected
None == [none |-> TRUE]

\* a reading as OBDSimulator.read_pid returns it
Reading(pid, value) == [pid |-> pid, value |-> value, unit |-> UnitOf(pid)]

\* the batches hal.stream() may yield: one entry per PID, in PIDS order; the
\* first entry may be missing
Batches ==
    { <<a, b>> :
        a \in {None} \cup {Reading(PIDS[1], v) : v \in Values(PIDS[1])},
        b \in {Reading(PIDS[2], v) : v \in Values(PIDS[2])} }

WebSockets == {"w1", "w2"}

\* the WebSocket handlers of the gateway; a handler registers one queue, so
\* a queue is named after its handler
Handlers == {"h1", "h2"}

\* the tasks that call Broadcaster.broadcast
Publishers == {"p1", "p2"}

\* AlertEvaluator.CONDITION_OPS: the keys of the table
KnownConditions == {"gt", "gte", "lt", "lte", "eq", "neq"}

\* CONDITION_OPS as it would be with >= stored under "gt"
CONDITION_OPS_GtAsGte(c, v, t) ==
    CASE c = "gt"  -> v >= t
      [] c = "gte" -> v >= t
      [] c = "lt"  -> v < t
      [] c = "lte" -> v =< t
      [] c = "eq"  -> v = t
      [] c = "neq" -> v # t
      [] OTHER     -> FALSE

\* AlertEvaluator.CONDITION_OPS: the lambda stored under key c
CONDITION_OPS(c, v, t) ==
    CASE c = "gt"  -> v > t
      [] c = "gte" -> v >= t
      [] c = "lt"  -> v < t
      [] c = "lte" -> v =< t
      [] c = "eq"  -> v = t
      [] c = "neq" -> v # t
      [] OTHER     -> FALSE

\* rows of table alert_configs the store may hold when the program starts
Rule1 == [id |-> 1, pid |-> "BOOST", condition |-> "gt", threshold |-> 20,
          enabled |-> TRUE, email_notify |-> FALSE]
Rule2 == [id |-> 2, pid |-> "RPM", condition |-> "gte", threshold |-> 3000,
          enabled |-> TRUE, email_notify |-> TRUE]
RuleTables == { <<Rule1>>, <<Rule1, Rule2>> }

\* the bodies of POST /api/alerts (AlertCreate) the model submits; "ge" is
\* no key of CONDITION_OPS
NewAlerts ==
    [pid : {"BOOST"}, condition : KnownConditions \cup {"ge"},
     threshold : {20, 22}, email_notify : {FALSE}]

Range(s) == {s[i] : i \in DOMAIN s}

\* a datetime object: the instant n, counted in ticks of the clock
Datetime(n) == [datetime |-> n]

\* datetime.isoformat(): the text of the instant with "T" between date and
\* time (OBDSimulator.read_pid)
isoformat(dt) == [text |-> dt.datetime, sep |-> "T"]

\* datetime.fromisoformat(): the datetime a text stands for
fromisoformat(s) == Datetime(s.text)

\* timedelta(days=1), in seconds, the unit of the clock
SecondsPerDay == 86400

\* sqlite3's default adapter for a datetime parameter: the text of the
\* instant with " " between date and time; the connection is opened without
\* detect_types, so a TIMESTAMP column is read back as that text
adapt_datetime(dt) == [text |-> dt.datetime, sep |-> " "]

\* list.remove(x): drops the first occurrence of x
RECURSIVE ListRemove(_, _)
ListRemove(s, x) ==
    IF s = <<>> THEN <<>>
    ELSE IF Head(s) = x THEN Tail(s)
    ELSE <<Head(s)>> \o ListRemove(Tail(s), x)

VARIABLES
    \* ---- src/app.py, src/alerts.py, src/database.py ----
    wpc,                \* where telemetry_stream_worker stands
    current_session_id, \* app.py global
    data_batch,         \* the batch the worker iterates
    idx,                \* index of data_point in data_batch
    pulled,             \* batches pulled from hal.stream() so far
    telemetry_data,     \* table telemetry_data
    alert_history,      \* table alert_history
    db_alert_configs,   \* table alert_configs
    db_ok,              \* whether the store's medium is available
    alert_configs,      \* AlertEvaluator.alert_configs
    emails,             \* alerts handed to _send_email_notification
    enable_cloud_sync,  \* settings.enable_cloud_sync
    api_url,            \* whether settings.cloud_api_url is set
    enable_email_alerts,\* settings.enable_email_alerts
    queue,              \* CloudSync.queue
    cloud_worker,       \* where CloudSync.worker stands
    cloud_out,          \* how many events the worker took, whether it
                        \* failed on one, and how the latest one ended
    active_connections, \* ConnectionManager.active_connections
    bidx,               \* the list iterator of ConnectionManager.broadcast
    sending,            \* the connection whose send_json is awaited
    stalled,            \* connections whose peer does not read
    sent_to,            \* connections send_json was called on, this broadcast
    present,            \* connections registered during the whole broadcast
    log,                \* the worker's steps, in the order they happened
    \* ---- src/focusst_telemetry/gateway ----
    clients,            \* Broadcaster.clients
    lock,               \* the task that holds Broadcaster._lock, or "None"
    maxsize,            \* maxsize of every queue created so far
    queues,             \* the payloads every created queue holds
    hpc,                \* where each websocket_endpoint handler stands
    ppc,                \* where each broadcast() call stands
    payload,            \* data of each broadcast() call
    snapshot,           \* list(self.clients) of each broadcast() call
    todo,               \* the part of snapshot the for loop has yet to visit
    clients_to_remove,  \* clients_to_remove of each broadcast() call
    attempts,           \* put_nowait calls of each broadcast() call
    published,          \* broadcast() calls that have entered the lock
    first,              \* published, when each queue was added to clients
    delivered,          \* the payloads ever enqueued on each queue
    full_at,            \* the payload on which each queue raised QueueFull
    \* ---- src/alerts.py: one evaluate() call; src/app.py: create_alert ----
    epc,                \* where the evaluate() call stands
    reading,            \* pid and value of the evaluate() call
    ev_list,            \* the list object the for loop of evaluate() iterates
    ev_i,               \* the position of that loop in ev_list
    ev_alert,           \* the loop variable `alert` of evaluate()
    triggered_alerts,   \* triggered_alerts of evaluate()
    ev_mark,            \* rows of alert_history when evaluate() was called
    results,            \* what every evaluate() call returned, in order
    lpc,                \* where the create_alert request stands
    l_rows,             \* the rows get_alerts() read for load_alerts()
    db_at_load,         \* table alert_configs as get_alerts() last read it
    replies,            \* the responses of create_alert, in order
    \* ---- src/database.py: sessions; src/app.py: shutdown_event ----
    now,                \* the clock datetime.now() reads
    telemetry_sessions, \* table telemetry_sessions
    shut,               \* where shutdown_event stands, and what the worker
                        \* had logged and pulled when it returned
    last_rowid,         \* the AUTOINCREMENT counter of table telemetry_data
    calls,              \* how many inserts by other callers, queries and
                        \* cleanups were made
    cursor,             \* the cursor of the query under way, or None
    answer,             \* what the latest query returned, or None
    pruned,             \* the latest cleanup_old_data: its cutoff and the
                        \* table as it found it, or None
    \* ---- src/obd_simulator.py ----
    simulator,          \* the OBDSimulator: current_values and scenario,
                        \* with the calls made and what the latest returned
    \* ---- src/st_telemetry/data_sources/mock_ecu.py ----
    mock_ecu,           \* the MockECU: _streaming, _tasks, _previous_values,
                        \* with the calls and reads made and the latest
                        \* data point
    tasks,              \* every task start_streaming created, in order
    stop,               \* the stop_streaming call under way
    \* ---- src/focusst_telemetry/ecu/obd_bridge.py, gateway/app.py ----
    obd_bridge,         \* the OBDBridge and what read_data returned last
    gateway             \* the TelemetryGateway, its ECU and its data task

pvars == <<wpc, current_session_id, data_batch, idx, pulled, telemetry_data,
           alert_history, db_alert_configs, db_ok, alert_configs, emails,
           enable_cloud_sync, api_url, enable_email_alerts, queue,
           cloud_worker, cloud_out, active_connections, bidx, sending,
           stalled, sent_to, present, log>>

bvars == <<clients, lock, maxsize, queues, hpc, ppc, payload, snapshot, todo,
           clients_to_remove, attempts, published, first, delivered, full_at>>

avars == <<epc, reading, ev_list, ev_i, ev_alert, triggered_alerts, ev_mark,
           results, lpc, l_rows, db_at_load, replies>>

svars == <<now, telemetry_sessions, shut, last_rowid, calls, cursor, answer,
           pruned>>

\* what the query endpoints and the retention job read and write
queries == <<calls, cursor, answer, pruned>>

\* the data sources
\* the OBD bridge and the gateway of src/focusst_telemetry
gwvars == <<obd_bridge, gateway>>

srcvars == <<simulator, mock_ecu, tasks, stop, gwvars>>

vars == <<pvars, bvars, avars, svars, srcvars>>

settings == <<enable_cloud_sync, api_url, enable_email_alerts>>
store == <<telemetry_data, alert_history, db_alert_configs>>
manager == <<active_connections, stalled>>
cloud == <<cloud_worker, cloud_out>>
bcast == <<bidx, sending, sent_to, present>>

\* number of the reading data_batch[idx], counted from the first one pulled
Seqno == (pulled - 1) * Len(PIDS) + idx

Logged(step) == Append(log, [seq |-> Seqno, step |-> step])

(***************************************************************************)
(* Construction of the module-level singletons.                            *)
(***************************************************************************)
PipelineInit ==
    /\ wpc = "not_started"
    /\ current_session_id = "None"
    /\ data_batch = <<>>
    /\ idx = 0
    /\ pulled = 0
    /\ telemetry_data = <<>>
    /\ alert_history = <<>>
    /\ db_alert_configs \in RuleTables
    /\ db_ok = TRUE
    /\ alert_configs = <<>>
    /\ emails = <<>>
    /\ enable_cloud_sync \in BOOLEAN
    \* cloud_api_url is read only with cloud sync enabled
    /\ api_url \in IF enable_cloud_sync THEN BOOLEAN ELSE {FALSE}
    \* enable_email_alerts is read only for a rule with email_notify
    /\ enable_email_alerts \in
          IF \E i \in DOMAIN db_alert_configs : db_alert_configs[i].email_notify
          THEN BOOLEAN ELSE {FALSE}
    /\ queue = <<>>
    /\ cloud_worker = "not_started"
    /\ cloud_out = [taken |-> 0, failed |-> FALSE, last |-> "None"]
    /\ active_connections = <<>>
    /\ bidx = 0
    /\ sending = "None"
    /\ stalled = {}
    /\ sent_to = <<>>
    /\ present = {}
    /\ log = <<>>

\* the clock, the store and shutdown_event as they are at construction
StoreInit ==
    /\ now = 0
    /\ telemetry_sessions = <<>>
    /\ shut = [pc |-> "no", mark |-> 0, pulled |-> 0]
    /\ last_rowid = 0
    /\ calls = [inserts |-> 0, queries |-> 0, cleanups |-> 0]
    /\ cursor = None
    /\ answer = None
    /\ pruned = None

(***************************************************************************)
(* src/database.py                                                         *)
(***************************************************************************)
\* datetime.now()
datetime_now == Datetime(now)

\* Database.insert_telemetry: table telemetry_data with the row of the
\* INSERT; a call without timestamp is stamped with datetime.now()
insert_telemetry(session_id, pid, value, unit, timestamp) ==
    Append(telemetry_data,
           [id |-> last_rowid + 1,
            session_id |-> session_id,
            timestamp |-> adapt_datetime(IF timestamp = None
                                         THEN datetime_now ELSE timestamp),
            pid |-> pid, value |-> value, unit |-> unit])

\* Database.create_session: the table with the row of the INSERT; end_time
\* is left NULL
create_session(session_id) ==
    Append(telemetry_sessions,
           [session_id |-> session_id,
            start_time |-> adapt_datetime(datetime_now),
            end_time |-> None])

\* end_session as it would be if the UPDATE wrote NULL
end_session_Null(session_id) ==
    [i \in DOMAIN telemetry_sessions |->
        IF telemetry_sessions[i].session_id = session_id
        THEN [telemetry_sessions[i] EXCEPT !.end_time = None]
        ELSE telemetry_sessions[i]]

\* Database.end_session: the table after
\* UPDATE telemetry_sessions SET end_time = ? WHERE session_id = ?
end_session(session_id) ==
    [i \in DOMAIN telemetry_sessions |->
        IF telemetry_sessions[i].session_id = session_id
        THEN [telemetry_sessions[i] EXCEPT
                 !.end_time = adapt_datetime(datetime_now)]
        ELSE telemetry_sessions[i]]

\* get_alerts as it would be without the WHERE enabled = 1 clause
get_alerts_All(enabled_only) == db_alert_configs

\* Database.get_alerts(enabled_only)
get_alerts(enabled_only) ==
    IF enabled_only
    THEN SelectSeq(db_alert_configs, LAMBDA row : row.enabled)
    ELSE db_alert_configs

\* the medium of the store goes away or comes back; the worker sees the
\* difference only where it stands at a store call
DbFail ==
    /\ wpc \in {"create_session", "insert", "evaluate"} \/ epc = "log_alert"
    /\ db_ok
    /\ db_ok' = FALSE
    /\ UNCHANGED <<srcvars, bvars, avars, svars>>
    /\ UNCHANGED <<wpc, current_session_id, data_batch, idx, pulled, store,
                   alert_configs, emails, settings, queue, cloud,
                   manager, bcast, log>>

DbRecover ==
    /\ wpc \in {"create_session", "insert", "evaluate"} \/ epc = "log_alert"
    /\ ~db_ok
    \* a connection that db.close() has closed stays closed
    /\ shut.pc # "done"
    /\ db_ok' = TRUE
    /\ UNCHANGED <<srcvars, bvars, avars, svars>>
    /\ UNCHANGED <<wpc, current_session_id, data_batch, idx, pulled, store,
                   alert_configs, emails, settings, queue, cloud,
                   manager, bcast, log>>

(***************************************************************************)
(* src/alerts.py: AlertEvaluator                                           *)
(***************************************************************************)
\* Fires as it would be with a cooldown: a rule whose trigger is the latest
\* row of alert_history does not fire again
Fires_Cooldown(a, pid, value) ==
    /\ a.pid = pid
    /\ a.condition \in KnownConditions
    /\ CONDITION_OPS(a.condition, value, a.threshold)
    /\ \/ alert_history = <<>>
       \/ alert_history[Len(alert_history)].alert_config_id # a.id

\* whether evaluate()'s loop body reaches log_alert for rule a: the pid is
\* the reading's, the condition is a key of CONDITION_OPS and it holds
Fires(a, pid, value) ==
    /\ a.pid = pid
    /\ a.condition \in KnownConditions
    /\ CONDITION_OPS(a.condition, value, a.threshold)

\* the rules of evaluate()'s loop that reach log_alert, in list order
Triggered(pid, value) ==
    SelectSeq(alert_configs, LAMBDA a : Fires(a, pid, value))

\* alert_data of one triggered rule
AlertData(alert, pid, value) ==
    [alert_id |-> alert.id, pid |-> pid, value |-> value,
     threshold |-> alert.threshold, condition |-> alert.condition]

TriggeredAlerts(pid, value) ==
    [i \in DOMAIN Triggered(pid, value) |->
        AlertData(Triggered(pid, value)[i], pid, value)]

\* the rows evaluate() writes through db.log_alert
HistoryRows(session_id, pid, value) ==
    [i \in DOMAIN Triggered(pid, value) |->
        [alert_config_id |-> Triggered(pid, value)[i].id,
         session_id |-> session_id,
         timestamp |-> adapt_datetime(datetime_now),
         pid |-> pid, value |-> value]]

\* Notified as it would be without the test of settings.enable_email_alerts
Notified_IgnoreSetting(pid, value) ==
    SelectSeq(Triggered(pid, value), LAMBDA alert : alert.email_notify)

\* the alerts evaluate() hands to _send_email_notification
Notified(pid, value) ==
    IF enable_email_alerts
    THEN SelectSeq(Triggered(pid, value), LAMBDA alert : alert.email_notify)
    ELSE <<>>

(***************************************************************************)
(* src/app.py: startup_event                                               *)
(***************************************************************************)
Startup ==
    /\ wpc = "not_started"
    /\ alert_configs' = get_alerts(TRUE)
    /\ cloud_worker' = IF enable_cloud_sync
                       THEN (IF api_url THEN "running" ELSE "returned")
                       ELSE "not_started"
    /\ wpc' = "create_session"
    /\ UNCHANGED <<srcvars, bvars, avars, svars>>
    /\ UNCHANGED <<current_session_id, data_batch, idx, pulled, store, db_ok,
                   emails, settings, queue, cloud_out, manager, bcast,
                   log>>

(***************************************************************************)
(* src/app.py: telemetry_stream_worker                                     *)
(***************************************************************************)
\* current_session_id = str(uuid.uuid4()); await db.create_session(...)
CreateSession ==
    /\ wpc = "create_session"
    /\ current_session_id' = "S1"
    /\ telemetry_sessions' =
          IF db_ok THEN create_session("S1") ELSE telemetry_sessions
    /\ wpc' = IF db_ok THEN "stream" ELSE "crashed"
    /\ UNCHANGED <<srcvars, bvars, avars, now, shut, last_rowid, queries>>
    /\ UNCHANGED <<data_batch, idx, pulled, store, db_ok, alert_configs,
                   emails, settings, queue, cloud, manager, bcast, log>>

\* for data_point in data_batch: if not data_point: continue
\* the index of the first data point at or after i that is taken up
RECURSIVE NextPoint(_, _)
NextPoint(batch, i) ==
    IF i > Len(batch) THEN i
    ELSE IF batch[i] = None THEN NextPoint(batch, i + 1)
    ELSE i

\* where the worker stands once the for loop has moved on to index i: at
\* db.insert_telemetry of the next data point, or back in hal.stream()
PcAt(batch, i) == IF NextPoint(batch, i) > Len(batch) THEN "stream" ELSE "insert"

\* read_all(): every reading of the batch carries
\* "timestamp": datetime.now().isoformat() of the moment it was read
Stamped(b) ==
    [i \in DOMAIN b |->
        IF b[i] = None THEN None
        ELSE [pid |-> b[i].pid, value |-> b[i].value, unit |-> b[i].unit,
              timestamp |-> isoformat(datetime_now)]]

\* async for data_batch in hal.stream(...): the next batch arrives
NextBatch ==
    /\ wpc = "stream"
    /\ pulled < MaxBatches
    /\ \E b \in Batches :
          /\ data_batch' = Stamped(b)
          /\ idx' = NextPoint(b, 1)
          /\ wpc' = PcAt(b, 1)
    /\ pulled' = pulled + 1
    /\ UNCHANGED <<srcvars, bvars, avars, svars>>
    /\ UNCHANGED <<current_session_id, store, db_ok, alert_configs, emails,
                   settings, queue, cloud, manager, bcast, log>>

\* await db.insert_telemetry(current_session_id, pid, value, unit)
InsertTelemetry ==
    /\ wpc = "insert"
    /\ \/ /\ db_ok
          /\ telemetry_data' =
                insert_telemetry(current_session_id, data_batch[idx].pid,
                                 data_batch[idx].value, data_batch[idx].unit,
                                 None)
          /\ last_rowid' = last_rowid + 1
          /\ log' = Logged("insert")
          /\ wpc' = "evaluate"
       \/ /\ ~db_ok
          \* the exception leaves telemetry_stream_worker: nothing catches it
          /\ telemetry_data' = telemetry_data
          /\ last_rowid' = last_rowid
          /\ log' = Logged("insert_error")
          /\ wpc' = "crashed"
    /\ UNCHANGED <<srcvars, bvars, avars, now, telemetry_sessions, shut, queries>>
    /\ UNCHANGED <<current_session_id, data_batch, idx, pulled, alert_history,
                   db_alert_configs, db_ok, alert_configs, emails, settings,
                   queue, cloud, manager, bcast>>

\* Evaluate as it would be were evaluate() started without being awaited:
\* the worker goes on to the cloud push with no evaluation done
Evaluate_NotAwaited ==
    /\ wpc = "evaluate"
    /\ wpc' = "push"
    /\ UNCHANGED <<srcvars, bvars, avars, svars>>
    /\ UNCHANGED <<current_session_id, data_batch, idx, pulled, store, db_ok,
                   alert_configs, emails, settings, queue, cloud,
                   manager, bcast, log>>

\* triggered_alerts = await alert_evaluator.evaluate(...);
\* data_point["alerts"] = triggered_alerts
Evaluate ==
    /\ wpc = "evaluate"
    /\ LET pid == data_batch[idx].pid
           value == data_batch[idx].value
       IN \/ /\ db_ok \/ Triggered(pid, value) = <<>>
             /\ alert_history' =
                   alert_history \o HistoryRows(current_session_id, pid, value)
             /\ emails' = emails \o
                   [i \in DOMAIN Notified(pid, value) |->
                       [alert_id |-> Notified(pid, value)[i].id, seq |-> Seqno]]
             /\ data_batch' =
                   [data_batch EXCEPT ![idx] =
                       [pid |-> pid, value |-> value,
                        unit |-> data_batch[idx].unit,
                        timestamp |-> data_batch[idx].timestamp,
                        alerts |-> TriggeredAlerts(pid, value)]]
             /\ log' = Logged("evaluate")
             /\ wpc' = "push"
          \/ /\ ~db_ok
             /\ Triggered(pid, value) # <<>>
             \* db.log_alert raises inside evaluate(); nothing catches it
             /\ UNCHANGED <<alert_history, emails, data_batch>>
             /\ log' = Logged("evaluate_error")
             /\ wpc' = "crashed"
    /\ UNCHANGED <<srcvars, bvars, avars, svars>>
    /\ UNCHANGED <<current_session_id, idx, pulled, telemetry_data,
                   db_alert_configs, db_ok, alert_configs, settings, queue,
                   cloud, manager, bcast>>

\* if settings.enable_cloud_sync: await cloud_sync.push(data_point)
\* push(): await self.queue.put(data)
CloudPush ==
    /\ wpc = "push"
    /\ \/ /\ ~enable_cloud_sync
          /\ UNCHANGED <<queue, log>>
          /\ wpc' = "broadcast"
       \/ /\ enable_cloud_sync
          /\ Len(queue) < CloudQueueMaxsize
          /\ queue' = Append(queue, data_batch[idx])
          /\ log' = Logged("push")
          /\ wpc' = "broadcast"
       \/ /\ enable_cloud_sync
          /\ Len(queue) >= CloudQueueMaxsize
          \* Queue.put(): while self.full(): await putter
          /\ UNCHANGED <<queue, log>>
          /\ wpc' = "put_wait"
    /\ UNCHANGED <<srcvars, bvars, avars, svars>>
    /\ UNCHANGED <<current_session_id, data_batch, idx, pulled, store, db_ok,
                   alert_configs, emails, settings, cloud, manager,
                   bcast>>

\* Queue.put() is woken once a slot is free and enqueues
PutResume ==
    /\ wpc = "put_wait"
    /\ Len(queue) < CloudQueueMaxsize
    /\ queue' = Append(queue, data_batch[idx])
    /\ log' = Logged("push")
    /\ wpc' = "broadcast"
    /\ UNCHANGED <<srcvars, bvars, avars, svars>>
    /\ UNCHANGED <<current_session_id, data_batch, idx, pulled, store, db_ok,
                   alert_configs, emails, settings, cloud, manager,
                   bcast>>

(***************************************************************************)
(* src/alerts.py: CloudSync.worker                                         *)
(***************************************************************************)
\* cloud_out once the delivery of one more event has ended as how
Delivery(how) ==
    [taken |-> cloud_out.taken + 1,
     failed |-> cloud_out.failed \/ how = "failed",
     last |-> how]

\* CloudWorkerGet as it would be if a failed event stayed at the head of the
\* queue to be sent again
CloudWorkerGet_Retry ==
    /\ cloud_worker = "running"
    /\ queue # <<>>
    /\ \/ /\ queue' = Tail(queue)
          /\ cloud_out' = Delivery("sent")
          /\ cloud_worker' = "running"
       \/ /\ queue' = queue
          /\ cloud_out' = Delivery("failed")
          /\ cloud_worker' = "sleeping"
    /\ UNCHANGED <<srcvars, bvars, avars, svars>>
    /\ UNCHANGED <<wpc, current_session_id, data_batch, idx, pulled, store,
                   db_ok, alert_configs, emails, settings, manager, bcast, log>>

\* data = await self.queue.get(); then the delivery (the print that stands
\* for the cloud API call) and self.queue.task_done(), or an exception of
\* these statements: except Exception: print(...); await asyncio.sleep(5)
CloudWorkerGet ==
    /\ cloud_worker = "running"
    /\ queue # <<>>
    /\ queue' = Tail(queue)
    /\ \/ /\ cloud_out' = Delivery("sent")
          /\ cloud_worker' = "running"
       \/ /\ cloud_out' = Delivery("failed")
          /\ cloud_worker' = "sleeping"
    /\ UNCHANGED <<srcvars, bvars, avars, svars>>
    /\ UNCHANGED <<wpc, current_session_id, data_batch, idx, pulled, store,
                   db_ok, alert_configs, emails, settings, manager, bcast, log>>

\* asyncio.sleep(5) is over: the while loop goes back to self.queue.get()
CloudWorkerWake ==
    /\ cloud_worker = "sleeping"
    /\ cloud_worker' = "running"
    /\ UNCHANGED <<srcvars, bvars, avars, svars>>
    /\ UNCHANGED <<wpc, current_session_id, data_batch, idx, pulled, store,
                   db_ok, alert_configs, emails, settings, queue, cloud_out,
                   manager, bcast, log>>

(***************************************************************************)
(* src/app.py: ConnectionManager                                           *)
(***************************************************************************)
\* websocket_telemetry: await manager.connect(websocket)
Connect(ws) ==
    /\ wpc # "not_started"
    /\ ws \notin Range(active_connections)
    /\ active_connections' = Append(active_connections, ws)
    /\ UNCHANGED <<srcvars, bvars, avars, svars>>
    /\ UNCHANGED <<wpc, current_session_id, data_batch, idx, pulled, store,
                   db_ok, alert_configs, emails, settings, queue,
                   cloud, stalled, bcast, log>>

\* websocket_telemetry: WebSocketDisconnect -> manager.disconnect(websocket)
Disconnect(ws) ==
    /\ ws \in Range(active_connections)
    /\ active_connections' = ListRemove(active_connections, ws)
    /\ stalled' = stalled \ {ws}
    /\ present' = present \ {ws}
    /\ UNCHANGED <<srcvars, bvars, avars, svars>>
    /\ UNCHANGED <<wpc, current_session_id, data_batch, idx, pulled, store,
                   db_ok, alert_configs, emails, settings, queue,
                   cloud, bidx, sending, sent_to, log>>

\* the peer of a connection stops reading: a send to it does not complete;
\* the worker sees the difference only while it broadcasts
ClientStalls(ws) ==
    /\ wpc \in {"broadcast", "send"}
    /\ ws \in Range(active_connections)
    /\ ws \notin stalled
    /\ stalled' = stalled \cup {ws}
    /\ UNCHANGED <<srcvars, bvars, avars, svars>>
    /\ UNCHANGED <<wpc, current_session_id, data_batch, idx, pulled, store,
                   db_ok, alert_configs, emails, settings, queue,
                   cloud, active_connections, bcast, log>>

\* for connection in self.active_connections: the list iterator's next()
\* with i connections consumed: the next send_json is awaited, or the loop
\* ends, broadcast() returns and the worker moves on to the next data point
IterNext(i, sent, lg, pres) ==
    \/ /\ i < Len(active_connections)
       /\ sending' = active_connections[i + 1]
       /\ bidx' = i + 1
       /\ sent_to' = Append(sent, active_connections[i + 1])
       /\ present' = pres
       /\ log' = lg
       /\ wpc' = "send"
       /\ idx' = idx
    \/ /\ i >= Len(active_connections)
       /\ sending' = "None"
       /\ bidx' = 0
       /\ sent_to' = <<>>
       /\ present' = {}
       /\ log' = Append(lg, [seq |-> Seqno, step |-> "broadcast_done"])
       /\ idx' = NextPoint(data_batch, idx + 1)
       /\ wpc' = PcAt(data_batch, idx + 1)

\* await manager.broadcast(data_point): the for loop starts
BroadcastStart ==
    /\ wpc = "broadcast"
    /\ IterNext(0, <<>>, Logged("broadcast"), Range(active_connections))
    /\ UNCHANGED <<srcvars, bvars, avars, svars>>
    /\ UNCHANGED <<current_session_id, data_batch, pulled, store, db_ok,
                   alert_configs, emails, settings, queue, cloud,
                   manager>>

\* send_json returns, or raises and broadcast() passes over the exception;
\* the for loop goes on
SendReturns ==
    /\ wpc = "send"
    /\ \/ /\ sending \in Range(active_connections)
          /\ sending \notin stalled
       \/ sending \notin Range(active_connections)
    /\ IterNext(bidx, sent_to, log, present)
    /\ UNCHANGED <<srcvars, bvars, avars, svars>>
    /\ UNCHANGED <<current_session_id, data_batch, pulled, store, db_ok,
                   alert_configs, emails, settings, queue, cloud,
                   manager>>

\* the worker task is cancelled at the await it stands at
Cancel ==
    /\ wpc \notin {"not_started", "crashed", "cancelled"}
    /\ wpc' = "cancelled"
    /\ UNCHANGED <<srcvars, bvars, avars, svars>>
    /\ UNCHANGED <<current_session_id, data_batch, idx, pulled, store, db_ok,
                   alert_configs, emails, settings, queue, cloud,
                   manager, bcast, log>>

(***************************************************************************)
(* src/app.py: shutdown_event                                              *)
(***************************************************************************)
\* if current_session_id: await db.end_session(current_session_id).
\* shutdown_event runs once startup_event has returned; by then the worker
\* has set current_session_id and its create_session is under way or over.
\* An exception of end_session leaves shutdown_event.  With no session id
\* the handler goes on to db.close() without suspending.
ShutdownEndSession ==
    /\ wpc \notin {"not_started", "create_session"}
    /\ shut.pc = "no"
    /\ IF current_session_id # "None"
       THEN \/ /\ db_ok
               /\ telemetry_sessions' = end_session(current_session_id)
               /\ shut' = [shut EXCEPT !.pc = "close"]
               /\ db_ok' = db_ok
            \/ /\ ~db_ok
               /\ telemetry_sessions' = telemetry_sessions
               /\ shut' = [shut EXCEPT !.pc = "raised"]
               /\ db_ok' = db_ok
       ELSE /\ telemetry_sessions' = telemetry_sessions
            /\ shut' = [pc |-> "done", mark |-> Len(log), pulled |-> pulled]
            /\ db_ok' = FALSE
    /\ UNCHANGED <<srcvars, bvars, avars, now, last_rowid, queries>>
    /\ UNCHANGED <<wpc, current_session_id, data_batch, idx, pulled,
                   telemetry_data, alert_history, db_alert_configs,
                   alert_configs, emails, settings, queue, cloud, manager,
                   bcast, log>>

\* await db.close(): every later call on the connection raises;
\* if hal: await hal.disconnect() sets hal.interface to None, which the
\* generator of hal.stream() the worker iterates does not read again.
\* Neither the worker task nor the task of CloudSync.worker is cancelled.
ShutdownClose ==
    /\ shut.pc = "close"
    /\ db_ok' = FALSE
    /\ shut' = [pc |-> "done", mark |-> Len(log), pulled |-> pulled]
    /\ UNCHANGED <<srcvars, bvars, avars, now, telemetry_sessions, last_rowid,
                   queries>>
    /\ UNCHANGED <<wpc, current_session_id, data_batch, idx, pulled,
                   telemetry_data, alert_history, db_alert_configs,
                   alert_configs, emails, settings, queue, cloud, manager,
                   bcast, log>>

PipelineNext ==
    \/ Startup
    \/ CreateSession
    \/ NextBatch
    \/ InsertTelemetry
    \/ Evaluate
    \/ CloudPush
    \/ PutResume
    \/ CloudWorkerGet
    \/ CloudWorkerWake
    \/ \E ws \in WebSockets : Connect(ws)
    \/ \E ws \in WebSockets : Disconnect(ws)
    \/ \E ws \in WebSockets : ClientStalls(ws)
    \/ BroadcastStart
    \/ SendReturns
    \/ DbFail
    \/ DbRecover
    \/ Cancel

\* the pipeline with its shutdown and one WebSocket client
LifecycleNext ==
    \/ Startup
    \/ CreateSession
    \/ NextBatch
    \/ InsertTelemetry
    \/ Evaluate
    \/ CloudPush
    \/ PutResume
    \/ CloudWorkerGet
    \/ CloudWorkerWake
    \/ Connect("w1")
    \/ Disconnect("w1")
    \/ ClientStalls("w1")
    \/ BroadcastStart
    \/ SendReturns
    \/ DbFail
    \/ DbRecover
    \/ Cancel
    \/ ShutdownEndSession
    \/ ShutdownClose

(***************************************************************************)
(* src/alerts.py: AlertEvaluator.evaluate, cut at its await points, and     *)
(* src/app.py: create_alert with AlertEvaluator.load_alerts.                *)
(*                                                                         *)
(* telemetry_stream_worker is the only caller of evaluate() and awaits     *)
(* every call, so one call is open at a time; here the worker, once its    *)
(* session is created, is reduced to these calls.                          *)
(* AlertEvaluator.callbacks stays empty: nothing calls register_callback.  *)
(***************************************************************************)
AlertsInit ==
    /\ epc = "idle"
    /\ reading = None
    /\ ev_list = <<>>
    /\ ev_i = 0
    /\ ev_alert = None
    /\ triggered_alerts = <<>>
    /\ ev_mark = 0
    /\ results = <<>>
    /\ lpc = "idle"
    /\ l_rows = <<>>
    /\ db_at_load = db_alert_configs
    /\ replies = <<>>

\* the index of the first rule of list at or after i that reaches log_alert
RECURSIVE NextFiring(_, _, _, _)
NextFiring(list, i, pid, value) ==
    IF i > Len(list) THEN i
    ELSE IF Fires(list[i], pid, value) THEN i
    ELSE NextFiring(list, i + 1, pid, value)

\* for alert in <list>: the loop of evaluate() from position i on, with trig
\* as triggered_alerts: it runs to the next await db.log_alert, or to the
\* end of the list and `return triggered_alerts`
EvalLoop(list, i, rd, trig) ==
    LET j == NextFiring(list, i, rd.pid, rd.value)
    IN /\ triggered_alerts' = trig
       /\ \/ /\ j <= Len(list)
             /\ ev_alert' = list[j]
             /\ ev_i' = j
             /\ epc' = "log_alert"
             /\ results' = results
          \/ /\ j > Len(list)
             /\ ev_alert' = None
             /\ ev_i' = 0
             /\ epc' = "idle"
             /\ results' =
                   Append(results,
                          [pid |-> rd.pid, value |-> rd.value,
                           rules |-> [k \in DOMAIN list |-> list[k].id],
                           fired |-> [k \in DOMAIN trig |-> trig[k].alert_id]])

\* telemetry_stream_worker: await alert_evaluator.evaluate(session, pid, value)
EvaluateCall(pid, value) ==
    /\ wpc = "stream"
    /\ epc = "idle"
    /\ Len(results) < MaxEvaluations
    /\ reading' = [pid |-> pid, value |-> value]
    /\ ev_list' = alert_configs
    /\ ev_mark' = Len(alert_history)
    /\ EvalLoop(alert_configs, 1, [pid |-> pid, value |-> value], <<>>)
    /\ UNCHANGED <<srcvars, pvars, bvars, svars>>
    /\ UNCHANGED <<lpc, l_rows, db_at_load, replies>>

\* what follows `await db.log_alert(...)` once it has returned: the event is
\* appended; the rule's notification is awaited or the loop goes on over list
AfterLogAlert(list) ==
    LET trig == Append(triggered_alerts,
                       AlertData(ev_alert, reading.pid, reading.value))
    IN IF ev_alert.email_notify /\ enable_email_alerts
       THEN /\ emails' = Append(emails, [alert_id |-> ev_alert.id,
                                         seq |-> Len(results) + 1])
            /\ triggered_alerts' = trig
            /\ epc' = "email"
            /\ UNCHANGED <<ev_alert, ev_i, results>>
       ELSE /\ emails' = emails
            /\ EvalLoop(list, ev_i + 1, reading, trig)

\* the row db.log_alert writes for the rule at hand
HistoryRow ==
    [alert_config_id |-> ev_alert.id, session_id |-> current_session_id,
     timestamp |-> adapt_datetime(datetime_now),
     pid |-> reading.pid, value |-> reading.value]

\* LogAlert as it would be if the trigger were returned without being
\* written to alert_history
LogAlert_NoRecord ==
    /\ epc = "log_alert"
    /\ AfterLogAlert(ev_list)
    /\ UNCHANGED <<srcvars, bvars, svars, reading, ev_list, ev_mark, lpc, l_rows, db_at_load,
                   replies>>
    /\ UNCHANGED <<wpc, current_session_id, data_batch, idx, pulled, store,
                   db_ok, alert_configs, settings, queue, cloud,
                   manager, bcast, log>>

\* LogAlert as it would be if the loop read self.alert_configs anew at every
\* pass instead of iterating the list object it started with
LogAlert_LiveList ==
    /\ epc = "log_alert"
    /\ db_ok
    /\ alert_history' = Append(alert_history, HistoryRow)
    /\ AfterLogAlert(alert_configs)
    /\ UNCHANGED <<srcvars, bvars, svars, reading, ev_list, ev_mark, lpc, l_rows, db_at_load,
                   replies>>
    /\ UNCHANGED <<wpc, current_session_id, data_batch, idx, pulled,
                   telemetry_data, db_alert_configs, db_ok, alert_configs,
                   settings, queue, cloud, manager, bcast, log>>

\* evaluate(): await db.log_alert(...) returns, or raises: the exception
\* leaves evaluate() and telemetry_stream_worker
LogAlert ==
    /\ epc = "log_alert"
    /\ \/ /\ db_ok
          /\ alert_history' = Append(alert_history, HistoryRow)
          /\ AfterLogAlert(ev_list)
          /\ wpc' = wpc
       \/ /\ ~db_ok
          /\ epc' = "raised"
          /\ wpc' = "crashed"
          /\ UNCHANGED <<alert_history, emails, ev_alert, ev_i,
                         triggered_alerts, results>>
    /\ UNCHANGED <<srcvars, bvars, svars, reading, ev_list, ev_mark, lpc, l_rows, db_at_load,
                   replies>>
    /\ UNCHANGED <<current_session_id, data_batch, idx, pulled,
                   telemetry_data, db_alert_configs, db_ok, alert_configs,
                   settings, queue, cloud, manager, bcast, log>>

\* evaluate(): await self._send_email_notification(alert_data) returns, the
\* SMTP exchange in the thread of asyncio.to_thread being over (sent, or
\* failed and the exception printed); the loop goes on
EmailDone ==
    /\ epc = "email"
    /\ EvalLoop(ev_list, ev_i + 1, reading, triggered_alerts)
    /\ UNCHANGED <<srcvars, pvars, bvars, svars>>
    /\ UNCHANGED <<reading, ev_list, ev_mark, lpc, l_rows, db_at_load, replies>>

\* POST /api/alerts: await db.create_alert(...) has inserted the row; a
\* request made while the store is unavailable fails and changes nothing
CreateAlert(a) ==
    /\ wpc # "not_started"
    /\ lpc = "idle"
    /\ db_ok
    /\ Len(replies) < MaxCreates
    /\ db_alert_configs' =
          Append(db_alert_configs,
                 [id |-> Len(db_alert_configs) + 1, pid |-> a.pid,
                  condition |-> a.condition, threshold |-> a.threshold,
                  enabled |-> TRUE, email_notify |-> a.email_notify])
    /\ lpc' = "load"
    /\ UNCHANGED <<srcvars, bvars, svars, epc, reading, ev_list, ev_i, ev_alert,
                   triggered_alerts, ev_mark, results, l_rows, db_at_load,
                   replies>>
    /\ UNCHANGED <<wpc, current_session_id, data_batch, idx, pulled,
                   telemetry_data, alert_history, db_ok, alert_configs,
                   emails, settings, queue, cloud, manager, bcast, log>>

\* load_alerts(): db.get_alerts(enabled_only=True) reads the table
LoadRead ==
    /\ lpc = "load"
    /\ l_rows' = get_alerts(TRUE)
    /\ db_at_load' = db_alert_configs
    /\ lpc' = "assign"
    /\ UNCHANGED <<srcvars, pvars, bvars, svars>>
    /\ UNCHANGED <<epc, reading, ev_list, ev_i, ev_alert, triggered_alerts,
                   ev_mark, results, replies>>

\* load_alerts(): self.alert_configs = <the rows read>; create_alert returns
\* {"id": alert_id, "name": alert.name}
LoadAssign ==
    /\ lpc = "assign"
    /\ alert_configs' = l_rows
    /\ l_rows' = <<>>
    /\ replies' = Append(replies, [id |-> Len(db_alert_configs),
                                   error |-> FALSE])
    /\ lpc' = "idle"
    /\ UNCHANGED <<srcvars, bvars, svars, epc, reading, ev_list, ev_i, ev_alert,
                   triggered_alerts, ev_mark, results, db_at_load>>
    /\ UNCHANGED <<wpc, current_session_id, data_batch, idx, pulled, store,
                   db_ok, emails, settings, queue, cloud, manager,
                   bcast, log>>

\* another client of the database file sets enabled = 0 on row i of table
\* alert_configs
DisableRule(i) ==
    /\ wpc # "not_started"
    /\ i \in DOMAIN db_alert_configs
    /\ db_alert_configs[i].enabled
    /\ db_alert_configs' = [db_alert_configs EXCEPT ![i].enabled = FALSE]
    /\ UNCHANGED <<srcvars, bvars, avars, svars>>
    /\ UNCHANGED <<wpc, current_session_id, data_batch, idx, pulled,
                   telemetry_data, alert_history, db_ok, alert_configs,
                   emails, settings, queue, cloud, manager, bcast, log>>

AlertsNext ==
    \/ Startup
    \/ CreateSession
    \/ \E pid \in Range(PIDS) : \E value \in Values(pid) :
          EvaluateCall(pid, value)
    \/ LogAlert
    \/ EmailDone
    \/ \E a \in NewAlerts : CreateAlert(a)
    \/ LoadRead
    \/ LoadAssign
    \/ \E i \in 1..(2 + MaxCreates) : DisableRule(i)
    \/ DbFail
    \/ DbRecover


(***************************************************************************)
(* src/focusst_telemetry/gateway/broadcaster.py: Broadcaster               *)
(*                                                                         *)
(* The body of `async with self._lock` is modelled statement by statement: *)
(* what keeps other tasks out of it is the lock, not the granularity of    *)
(* the model.  Payloads are numbered in the order the broadcast() calls    *)
(* enter the lock.                                                         *)
(***************************************************************************)
BroadcasterInit ==
    /\ clients = {}
    /\ lock = "None"
    /\ maxsize = <<>>
    /\ queues = <<>>
    /\ hpc = [h \in Handlers |-> "idle"]
    /\ ppc = [p \in Publishers |-> "idle"]
    /\ payload = [p \in Publishers |-> 0]
    /\ snapshot = [p \in Publishers |-> {}]
    /\ todo = [p \in Publishers |-> {}]
    /\ clients_to_remove = [p \in Publishers |-> {}]
    /\ attempts = [p \in Publishers |-> 0]
    /\ published = 0
    /\ first = <<>>
    /\ delivered = <<>>
    /\ full_at = <<>>

\* f with key k (new or not) bound to v
Put(f, k, v) == [x \in DOMAIN f \cup {k} |-> IF x = k THEN v ELSE f[x]]

\* websocket_endpoint: await websocket.accept();
\* register(): queue = asyncio.Queue(maxsize=100); async with self._lock
RegisterCreate(h) ==
    /\ hpc[h] = "idle"
    /\ maxsize' = Put(maxsize, h, QueueMaxsize)
    /\ queues' = Put(queues, h, <<>>)
    /\ delivered' = Put(delivered, h, <<>>)
    /\ full_at' = Put(full_at, h, 0)
    /\ hpc' = [hpc EXCEPT ![h] = "register"]
    /\ UNCHANGED <<srcvars, pvars, avars, svars>>
    /\ UNCHANGED <<clients, lock, ppc, payload, snapshot, todo,
                   clients_to_remove, attempts, published, first>>

\* register(): the lock is free; self.clients.add(queue); return queue
RegisterAdd(h) ==
    /\ hpc[h] = "register"
    /\ lock = "None"
    /\ clients' = clients \cup {h}
    /\ first' = Put(first, h, published)
    /\ hpc' = [hpc EXCEPT ![h] = "get"]
    /\ UNCHANGED <<srcvars, pvars, avars, svars>>
    /\ UNCHANGED <<lock, maxsize, queues, ppc, payload, snapshot, todo,
                   clients_to_remove, attempts, published, delivered, full_at>>

\* QueueGet as it would be if the queue handed out its newest payload
QueueGet_Lifo(h) ==
    /\ hpc[h] = "get"
    /\ queues[h] # <<>>
    /\ queues' = [queues EXCEPT
                     ![h] = SubSeq(queues[h], 1, Len(queues[h]) - 1)]
    /\ hpc' = [hpc EXCEPT ![h] = "send"]
    /\ UNCHANGED <<srcvars, pvars, avars, svars>>
    /\ UNCHANGED <<clients, lock, maxsize, ppc, payload, snapshot, todo,
                   clients_to_remove, attempts, published, first, delivered,
                   full_at>>

\* websocket_endpoint: data = await queue.get()
QueueGet(h) ==
    /\ hpc[h] = "get"
    /\ queues[h] # <<>>
    /\ queues' = [queues EXCEPT ![h] = Tail(queues[h])]
    /\ hpc' = [hpc EXCEPT ![h] = "send"]
    /\ UNCHANGED <<srcvars, pvars, avars, svars>>
    /\ UNCHANGED <<clients, lock, maxsize, ppc, payload, snapshot, todo,
                   clients_to_remove, attempts, published, first, delivered,
                   full_at>>

\* SendJson as it would be without the finally clause: an exception ends the
\* handler at once
SendJson_NoFinally(h) ==
    /\ hpc[h] = "send"
    /\ \/ hpc' = [hpc EXCEPT ![h] = "get"]
       \/ hpc' = [hpc EXCEPT ![h] = "closed"]
    /\ UNCHANGED <<srcvars, pvars, avars, svars>>
    /\ UNCHANGED <<clients, lock, maxsize, queues, ppc, payload, snapshot,
                   todo, clients_to_remove, attempts, published, first,
                   delivered, full_at>>

\* websocket_endpoint: await websocket.send_json(data) returns, or raises
\* (WebSocketDisconnect or another exception) and the finally clause is due
SendJson(h) ==
    /\ hpc[h] = "send"
    /\ \/ hpc' = [hpc EXCEPT ![h] = "get"]
       \/ hpc' = [hpc EXCEPT ![h] = "unregister"]
    /\ UNCHANGED <<srcvars, pvars, avars, svars>>
    /\ UNCHANGED <<clients, lock, maxsize, queues, ppc, payload, snapshot,
                   todo, clients_to_remove, attempts, published, first,
                   delivered, full_at>>

\* set.discard as it would be if it flipped membership: an absent element
\* is put into the set
discard_Toggle(s, x) == IF x \in s THEN s \ {x} ELSE s \cup {x}

\* set.discard(x): removes x if it is a member, does nothing otherwise
discard(s, x) == s \ {x}

\* unregister(): the lock is free; self.clients.discard(queue)
Unregister(h) ==
    /\ hpc[h] = "unregister"
    /\ lock = "None"
    /\ clients' = discard(clients, h)
    /\ hpc' = [hpc EXCEPT ![h] = "closed"]
    /\ UNCHANGED <<srcvars, pvars, avars, svars>>
    /\ UNCHANGED <<lock, maxsize, queues, ppc, payload, snapshot, todo,
                   clients_to_remove, attempts, published, first, delivered,
                   full_at>>

\* broadcast(data) is called: async with self._lock is reached
BroadcastCall(p) ==
    /\ ppc[p] = "idle"
    /\ published + Cardinality({r \in Publishers : ppc[r] = "acquire"})
          < MaxPublishes
    /\ ppc' = [ppc EXCEPT ![p] = "acquire"]
    /\ UNCHANGED <<srcvars, pvars, avars, svars>>
    /\ UNCHANGED <<clients, lock, maxsize, queues, hpc, payload, snapshot,
                   todo, clients_to_remove, attempts, published, first,
                   delivered, full_at>>

\* broadcast(): the lock is taken; clients_to_remove = [];
\* list(self.clients) is built for the for loop
BroadcastAcquire(p) ==
    /\ ppc[p] = "acquire"
    /\ lock = "None"
    /\ lock' = p
    /\ published' = published + 1
    /\ payload' = [payload EXCEPT ![p] = published + 1]
    /\ snapshot' = [snapshot EXCEPT ![p] = clients]
    /\ todo' = [todo EXCEPT ![p] = clients]
    /\ clients_to_remove' = [clients_to_remove EXCEPT ![p] = {}]
    /\ attempts' = [attempts EXCEPT ![p] = 0]
    /\ ppc' = [ppc EXCEPT ![p] = "iterate"]
    /\ UNCHANGED <<srcvars, pvars, avars, svars>>
    /\ UNCHANGED <<clients, maxsize, queues, hpc, first, delivered, full_at>>

\* put_nowait as it would be if a full queue were only passed over: the
\* QueueFull handler does not note the queue for removal
put_nowait_SkipFull(p, q) ==
    /\ ppc[p] = "iterate"
    /\ q \in todo[p]
    /\ todo' = [todo EXCEPT ![p] = todo[p] \ {q}]
    /\ attempts' = [attempts EXCEPT ![p] = attempts[p] + 1]
    /\ \/ /\ Len(queues[q]) < maxsize[q]
          /\ queues' = [queues EXCEPT ![q] = Append(queues[q], payload[p])]
          /\ delivered' =
                [delivered EXCEPT ![q] = Append(delivered[q], payload[p])]
          /\ UNCHANGED <<clients_to_remove, full_at>>
       \/ /\ Len(queues[q]) >= maxsize[q]
          /\ full_at' = [full_at EXCEPT ![q] = payload[p]]
          /\ UNCHANGED <<queues, delivered, clients_to_remove>>
    /\ UNCHANGED <<srcvars, pvars, avars, svars>>
    /\ UNCHANGED <<clients, lock, maxsize, hpc, ppc, payload, snapshot,
                   published, first>>

\* put_nowait as it would be if QueueFull ended the for loop: the queues not
\* yet visited get nothing
put_nowait_BreakOnFull(p, q) ==
    /\ ppc[p] = "iterate"
    /\ q \in todo[p]
    /\ attempts' = [attempts EXCEPT ![p] = attempts[p] + 1]
    /\ \/ /\ Len(queues[q]) < maxsize[q]
          /\ todo' = [todo EXCEPT ![p] = todo[p] \ {q}]
          /\ queues' = [queues EXCEPT ![q] = Append(queues[q], payload[p])]
          /\ delivered' =
                [delivered EXCEPT ![q] = Append(delivered[q], payload[p])]
          /\ UNCHANGED <<clients_to_remove, full_at>>
       \/ /\ Len(queues[q]) >= maxsize[q]
          /\ todo' = [todo EXCEPT ![p] = {}]
          /\ clients_to_remove' =
                [clients_to_remove EXCEPT ![p] = clients_to_remove[p] \cup {q}]
          /\ full_at' = [full_at EXCEPT ![q] = payload[p]]
          /\ UNCHANGED <<queues, delivered>>
    /\ UNCHANGED <<srcvars, pvars, avars, svars>>
    /\ UNCHANGED <<clients, lock, maxsize, hpc, ppc, payload, snapshot,
                   published, first>>

\* put_nowait as it would be with `await queue.put(data)`: the call waits
\* for room in the queue
put_nowait_Blocking(p, q) ==
    /\ ppc[p] = "iterate"
    /\ q \in todo[p]
    /\ Len(queues[q]) < maxsize[q]
    /\ todo' = [todo EXCEPT ![p] = todo[p] \ {q}]
    /\ attempts' = [attempts EXCEPT ![p] = attempts[p] + 1]
    /\ queues' = [queues EXCEPT ![q] = Append(queues[q], payload[p])]
    /\ delivered' = [delivered EXCEPT ![q] = Append(delivered[q], payload[p])]
    /\ UNCHANGED <<srcvars, pvars, avars, svars>>
    /\ UNCHANGED <<clients, lock, maxsize, hpc, ppc, payload, snapshot,
                   published, first, clients_to_remove, full_at>>

\* put_nowait as it would be without the check for a full queue
put_nowait_Unbounded(p, q) ==
    /\ ppc[p] = "iterate"
    /\ q \in todo[p]
    /\ todo' = [todo EXCEPT ![p] = todo[p] \ {q}]
    /\ attempts' = [attempts EXCEPT ![p] = attempts[p] + 1]
    /\ queues' = [queues EXCEPT ![q] = Append(queues[q], payload[p])]
    /\ delivered' = [delivered EXCEPT ![q] = Append(delivered[q], payload[p])]
    /\ UNCHANGED <<srcvars, pvars, avars, svars>>
    /\ UNCHANGED <<clients, lock, maxsize, hpc, ppc, payload, snapshot,
                   published, first, clients_to_remove, full_at>>

\* one pass of the for loop: queue.put_nowait(data); on QueueFull
\* clients_to_remove.append(queue)
put_nowait(p, q) ==
    /\ ppc[p] = "iterate"
    /\ q \in todo[p]
    /\ todo' = [todo EXCEPT ![p] = todo[p] \ {q}]
    /\ attempts' = [attempts EXCEPT ![p] = attempts[p] + 1]
    /\ \/ /\ Len(queues[q]) < maxsize[q]
          /\ queues' = [queues EXCEPT ![q] = Append(queues[q], payload[p])]
          /\ delivered' =
                [delivered EXCEPT ![q] = Append(delivered[q], payload[p])]
          /\ UNCHANGED <<clients_to_remove, full_at>>
       \/ /\ Len(queues[q]) >= maxsize[q]
          /\ clients_to_remove' =
                [clients_to_remove EXCEPT ![p] = clients_to_remove[p] \cup {q}]
          /\ full_at' = [full_at EXCEPT ![q] = payload[p]]
          /\ UNCHANGED <<queues, delivered>>
    /\ UNCHANGED <<srcvars, pvars, avars, svars>>
    /\ UNCHANGED <<clients, lock, maxsize, hpc, ppc, payload, snapshot,
                   published, first>>

\* for queue in list(self.clients): any order of the set
BroadcastPut(p) == \E q \in todo[p] : put_nowait(p, q)

\* the for loop is over: for queue in clients_to_remove:
\* self.clients.discard(queue); the lock is released
BroadcastRemove(p) ==
    /\ ppc[p] = "iterate"
    /\ todo[p] = {}
    /\ clients' = clients \ clients_to_remove[p]
    /\ lock' = "None"
    /\ ppc' = [ppc EXCEPT ![p] = "idle"]
    /\ UNCHANGED <<srcvars, pvars, avars, svars>>
    /\ UNCHANGED <<maxsize, queues, hpc, payload, snapshot, todo,
                   clients_to_remove, attempts, published, first, delivered,
                   full_at>>

\* TelemetryGateway.stop(): await self.ecu.stop() sets ecu.running to False;
\* self._data_task.cancel(); await self._data_task.  The publishing tasks are
\* cancelled at the await they stand at, which is never inside the lock: its
\* body has no await.  stop() does nothing to the queues or their handlers.
Stop ==
    /\ lock = "None"
    /\ \E p \in Publishers : ppc[p] # "cancelled"
    /\ ppc' = [p \in Publishers |-> "cancelled"]
    /\ UNCHANGED <<srcvars, pvars, avars, svars>>
    /\ UNCHANGED <<clients, lock, maxsize, queues, hpc, payload, snapshot,
                   todo, clients_to_remove, attempts, published, first,
                   delivered, full_at>>

\* the steps the handler h of websocket_endpoint may take
HandlerStep(h) ==
    \/ RegisterCreate(h)
    \/ RegisterAdd(h)
    \/ QueueGet(h)
    \/ SendJson(h)
    \/ Unregister(h)

BroadcasterNext ==
    \/ \E h \in Handlers : RegisterCreate(h)
    \/ \E h \in Handlers : RegisterAdd(h)
    \/ \E h \in Handlers : QueueGet(h)
    \/ \E h \in Handlers : SendJson(h)
    \/ \E h \in Handlers : Unregister(h)
    \/ \E p \in Publishers : BroadcastCall(p)
    \/ \E p \in Publishers : BroadcastAcquire(p)
    \/ \E p \in Publishers : BroadcastPut(p)
    \/ \E p \in Publishers : BroadcastRemove(p)
    \/ Stop

(***************************************************************************)
(* src/database.py: the queries and the retention job, with their callers  *)
(* (get_session and get_recent_data of src/app.py, cleanup_old_data of     *)
(* src/cli.py, which opens its own connection to the same file).           *)
(*                                                                         *)
(* A timestamp is stored as the text sqlite3 adapts a datetime to, and     *)
(* SQLite compares such texts as their instants compare.  A query is two   *)
(* awaits, connection.execute and cursor.fetchall.                         *)
(***************************************************************************)
\* the session of the run and a session of an earlier run
Sessions == {"S1", "S0"}

\* the timestamps a caller of insert_telemetry passes: none, or a day before
\* the run began
Timestamps == {None, Datetime(0 - SecondsPerDay)}

\* the bounds a caller of get_session_data passes
Bounds == {None, Datetime(0)}

\* the windows, in seconds, a caller of get_recent_telemetry passes
Windows == {1, 600}

\* the ages, in days, cleanup_old_data is called with
Days == {0, 1}

\* the clock advances by one second
Tick ==
    /\ now < MaxNow
    /\ now' = now + 1
    /\ UNCHANGED <<srcvars, pvars, bvars, avars>>
    /\ UNCHANGED <<telemetry_sessions, shut, last_rowid, queries>>

\* a caller other than the worker awaits db.insert_telemetry(...), with or
\* without a timestamp of its own (SQLite does not enforce the foreign key
\* of session_id)
InsertCall(session_id, timestamp) ==
    /\ wpc # "not_started"
    /\ db_ok
    /\ calls.inserts < MaxInserts
    /\ telemetry_data' =
          insert_telemetry(session_id, "BOOST", 18, UnitOf("BOOST"), timestamp)
    /\ last_rowid' = last_rowid + 1
    /\ calls' = [calls EXCEPT !.inserts = calls.inserts + 1]
    /\ UNCHANGED <<srcvars, bvars, avars, now, telemetry_sessions, shut, cursor,
                   answer, pruned>>
    /\ UNCHANGED <<wpc, current_session_id, data_batch, idx, pulled,
                   alert_history, db_alert_configs, db_ok, alert_configs,
                   emails, settings, queue, cloud, manager, bcast, log>>

\* s with x put before the first element whose timestamp is later than x's
\* (ORDER BY timestamp ASC; rows of one timestamp stay in rowid order, the
\* order of index idx_session_timestamp)
RECURSIVE InsertAsc(_, _)
InsertAsc(s, x) ==
    IF s = <<>> THEN <<x>>
    ELSE IF x.timestamp.text < Head(s).timestamp.text THEN <<x>> \o s
    ELSE <<Head(s)>> \o InsertAsc(Tail(s), x)

RECURSIVE OrderAsc(_)
OrderAsc(s) ==
    IF s = <<>> THEN <<>>
    ELSE InsertAsc(OrderAsc(SubSeq(s, 1, Len(s) - 1)), s[Len(s)])

\* ORDER BY timestamp DESC: the index read backwards
OrderDesc(s) ==
    [i \in DOMAIN s |-> OrderAsc(s)[Len(s) + 1 - i]]

\* select_range as it would be with > and < for >= and <=
select_range_Exclusive(table, session_id, start_time, end_time) ==
    OrderAsc(SelectSeq(table, LAMBDA r :
        /\ r.session_id = session_id
        /\ start_time # None =>
              r.timestamp.text > adapt_datetime(start_time).text
        /\ end_time # None =>
              r.timestamp.text < adapt_datetime(end_time).text))

\* the SELECT of get_session_data on table: WHERE session_id = ?
\* [AND timestamp >= ?] [AND timestamp <= ?] ORDER BY timestamp ASC; a
\* datetime is always true under `if start_time:`
select_range(table, session_id, start_time, end_time) ==
    OrderAsc(SelectSeq(table, LAMBDA r :
        /\ r.session_id = session_id
        /\ start_time # None =>
              r.timestamp.text >= adapt_datetime(start_time).text
        /\ end_time # None =>
              r.timestamp.text =< adapt_datetime(end_time).text))

\* select_recent as it would be with ORDER BY timestamp ASC
select_recent_Asc(table, session_id, cutoff) ==
    OrderAsc(SelectSeq(table, LAMBDA r :
        /\ r.session_id = session_id
        /\ r.timestamp.text > adapt_datetime(cutoff).text))

\* the SELECT of get_recent_telemetry on table: WHERE session_id = ? AND
\* timestamp > ? ORDER BY timestamp DESC
select_recent(table, session_id, cutoff) ==
    OrderDesc(SelectSeq(table, LAMBDA r :
        /\ r.session_id = session_id
        /\ r.timestamp.text > adapt_datetime(cutoff).text))

\* Database.get_session_data: the rows it reads now
get_session_data(session_id, start_time, end_time) ==
    select_range(telemetry_data, session_id, start_time, end_time)

\* Database.get_recent_telemetry: the rows it reads now
get_recent_telemetry(session_id, seconds) ==
    select_recent(telemetry_data, session_id, Datetime(now - seconds))

\* the list of dicts both queries build from the rows read
Dicts(rows) ==
    [i \in DOMAIN rows |->
        [timestamp |-> rows[i].timestamp, pid |-> rows[i].pid,
         value |-> rows[i].value, unit |-> rows[i].unit]]

\* get_session_data: cursor = await self.connection.execute(query, params)
RangeExecute(session_id, start_time, end_time) ==
    /\ wpc # "not_started"
    /\ db_ok
    /\ cursor = None
    /\ calls.queries < MaxQueries
    /\ cursor' = [op |-> "range", session_id |-> session_id,
                  start_time |-> start_time, end_time |-> end_time,
                  rows |-> get_session_data(session_id, start_time, end_time),
                  table |-> telemetry_data]
    /\ calls' = [calls EXCEPT !.queries = calls.queries + 1]
    /\ UNCHANGED <<srcvars, pvars, bvars, avars>>
    /\ UNCHANGED <<now, telemetry_sessions, shut, last_rowid, answer, pruned>>

\* get_recent_telemetry: cutoff = datetime.now() - timedelta(seconds=seconds);
\* cursor = await self.connection.execute(...)
RecentExecute(session_id, seconds) ==
    /\ wpc # "not_started"
    /\ db_ok
    /\ cursor = None
    /\ calls.queries < MaxQueries
    /\ cursor' = [op |-> "recent", session_id |-> session_id,
                  seconds |-> seconds, at |-> datetime_now,
                  cutoff |-> Datetime(now - seconds),
                  rows |-> get_recent_telemetry(session_id, seconds),
                  table |-> telemetry_data]
    /\ calls' = [calls EXCEPT !.queries = calls.queries + 1]
    /\ UNCHANGED <<srcvars, pvars, bvars, avars>>
    /\ UNCHANGED <<now, telemetry_sessions, shut, last_rowid, answer, pruned>>

\* the rows the statement of cursor c reads from table
Select(c, table) ==
    IF c.op = "range"
    THEN select_range(table, c.session_id, c.start_time, c.end_time)
    ELSE select_recent(table, c.session_id, c.cutoff)

\* rows = await cursor.fetchall(); return [...].  The statement has seen
\* every change made before it started; whether it sees a row the same
\* connection inserted since is left open by SQLite, and both are allowed.
Fetch ==
    /\ cursor # None
    /\ \E rows \in {cursor.rows, Select(cursor, telemetry_data)} :
          answer' = [q |-> cursor, rows |-> rows, after |-> telemetry_data]
    /\ cursor' = None
    /\ UNCHANGED <<srcvars, pvars, bvars, avars>>
    /\ UNCHANGED <<now, telemetry_sessions, shut, last_rowid, calls, pruned>>

\* delete_older as it would be with <= for <
delete_older_Inclusive(table, cutoff) ==
    SelectSeq(table, LAMBDA r :
        ~(r.timestamp.text =< adapt_datetime(cutoff).text))

\* DELETE FROM telemetry_data WHERE timestamp < ?: the rows left of table
delete_older(table, cutoff) ==
    SelectSeq(table, LAMBDA r :
        ~(r.timestamp.text < adapt_datetime(cutoff).text))

\* cleanup_old_data as it would be if it also deleted the rows of
\* alert_history older than the cutoff
cleanup_old_data_AlsoAlerts(days) ==
    /\ cursor = None
    /\ calls.cleanups < MaxCleanups
    /\ LET cutoff == Datetime(now - days * SecondsPerDay)
       IN /\ telemetry_data' = delete_older(telemetry_data, cutoff)
          /\ alert_history' = delete_older(alert_history, cutoff)
          /\ pruned' = [cutoff |-> cutoff, before |-> telemetry_data]
    /\ calls' = [calls EXCEPT !.cleanups = calls.cleanups + 1]
    /\ UNCHANGED <<srcvars, bvars, avars, now, telemetry_sessions, shut, last_rowid,
                   cursor, answer>>
    /\ UNCHANGED <<wpc, current_session_id, data_batch, idx, pulled,
                   db_alert_configs, db_ok, alert_configs,
                   emails, settings, queue, cloud, manager, bcast, log>>

\* Database.cleanup_old_data(days), run by src/cli.py on a connection of
\* its own: cutoff = datetime.now() - timedelta(days=days); one DELETE and
\* its commit.  SQLite lets the commit through only while no other
\* connection has a statement reading the file.
cleanup_old_data(days) ==
    /\ cursor = None
    /\ calls.cleanups < MaxCleanups
    /\ LET cutoff == Datetime(now - days * SecondsPerDay)
       IN /\ telemetry_data' = delete_older(telemetry_data, cutoff)
          /\ pruned' = [cutoff |-> cutoff, before |-> telemetry_data]
    /\ calls' = [calls EXCEPT !.cleanups = calls.cleanups + 1]
    /\ UNCHANGED <<srcvars, bvars, avars, now, telemetry_sessions, shut, last_rowid,
                   cursor, answer>>
    /\ UNCHANGED <<wpc, current_session_id, data_batch, idx, pulled,
                   alert_history, db_alert_configs, db_ok, alert_configs,
                   emails, settings, queue, cloud, manager, bcast, log>>

\* the worker of src/app.py without cloud sync and without WebSocket
\* clients, the callers of the store and the clock
StoreNext ==
    \/ Startup
    \/ CreateSession
    \/ pulled < MaxStoreBatches /\ NextBatch
    \/ InsertTelemetry
    \/ Evaluate
    \/ CloudPush
    \/ BroadcastStart
    \/ Tick
    \/ \E s \in Sessions : \E t \in Timestamps : InsertCall(s, t)
    \/ \E s \in Sessions : \E a \in Bounds : \E b \in Bounds :
          RangeExecute(s, a, b)
    \* get_recent_data answers 404 while there is no session
    \/ /\ current_session_id # "None"
       /\ \E w \in Windows : RecentExecute(current_session_id, w)
    \/ Fetch
    \/ \E d \in Days : cleanup_old_data(d)

(***************************************************************************)
(* src/obd_simulator.py: OBDSimulator.  Values are counted in hundredths   *)
(* of the PID's unit, the precision read_pid rounds to; the tenth of the   *)
(* way to the target is rounded down to a hundredth.                       *)
(***************************************************************************)
\* OBDSimulator.PIDS cut to the two PIDs whose reads change another PID's
\* current value and the two PIDs they change, in the order of the dict
SimulatorPIDS == <<"RPM", "INTAKE_TEMP", "BOOST", "OIL_TEMP">>

\* OBDSimulator.PIDS[pid], in hundredths
Config(pid) ==
    CASE pid = "RPM" ->
           [min |-> 80000, max |-> 650000, unit |-> "RPM", variance |-> 10000]
      [] pid = "INTAKE_TEMP" ->
           [min |-> 6000, max |-> 18000, unit |-> "F", variance |-> 300]
      [] pid = "BOOST" ->
           [min |-> 0 - 500, max |-> 2200, unit |-> "PSI", variance |-> 100]
      [] pid = "OIL_TEMP" ->
           [min |-> 8000, max |-> 28000, unit |-> "F", variance |-> 200]

\* (config["min"] + config["max"]) / 2
Baseline(pid) == (Config(pid).min + Config(pid).max) \div 2

\* the scenarios _get_target_value knows
Scenarios == {"idle", "cruising", "acceleration", "hard_driving"}

\* OBDSimulator._get_target_value
_get_target_value(scenario, pid) ==
    CASE scenario = "idle" /\ pid = "RPM" -> 85000
      [] scenario = "idle" /\ pid = "BOOST" -> 0 - 300
      [] scenario = "cruising" /\ pid = "RPM" -> 250000
      [] scenario = "cruising" /\ pid = "BOOST" -> 0
      [] scenario = "acceleration" /\ pid = "RPM" -> 450000
      [] scenario = "acceleration" /\ pid = "BOOST" -> 1800
      [] scenario = "hard_driving" /\ pid = "RPM" -> 550000
      [] scenario = "hard_driving" /\ pid = "BOOST" -> 2100
      [] scenario = "hard_driving" /\ pid = "OIL_TEMP" -> 24000
      [] OTHER -> Baseline(pid)

\* the larger and the smaller of two numbers
max(a, b) == IF a >= b THEN a ELSE b
min(a, b) == IF a =< b THEN a ELSE b

\* clamp as it would be without the upper limit
clamp_NoUpper(config, new_value) == max(config.min, new_value)

\* new_value = max(config["min"], min(config["max"], new_value))
clamp(config, new_value) == max(config.min, min(config.max, new_value))

\* random.uniform(-variance, variance): its two ends and its middle
Noise(pid) == {0 - Config(pid).variance, 0, Config(pid).variance}

\* the new value read_pid computes for pid, with the noise drawn
NewValue(sim, pid, noise) ==
    LET current == sim.current_values[pid]
        target == _get_target_value(sim.scenario, pid)
        delta == (target - current) \div 10
    IN clamp(Config(pid), current + delta + noise)

\* self.current_values once read_pid(pid) has returned: the correlation
\* effects first, then the new value of pid
AfterRead(sim, pid, noise) ==
    LET new_value == NewValue(sim, pid, noise)
        oil == IF pid = "RPM" /\ new_value > 300000
               THEN [sim.current_values EXCEPT !["OIL_TEMP"] = @ + 50]
               ELSE sim.current_values
        intake == IF pid = "BOOST" /\ new_value > 1500
                  THEN [oil EXCEPT !["INTAKE_TEMP"] = @ + 30]
                  ELSE oil
    IN [intake EXCEPT ![pid] = new_value]

\* what read_pid(pid) returns: None for a PID that is not in PIDS
read_pid(sim, pid, noise) ==
    IF pid \notin Range(SimulatorPIDS)
    THEN None
    ELSE [pid |-> pid, value |-> NewValue(sim, pid, noise),
          unit |-> Config(pid).unit, timestamp |-> isoformat(datetime_now)]

\* the simulator and the list read_all has built once it has read the
\* first n PIDS, with the noise drawn for each
RECURSIVE ReadFirst(_, _, _)
ReadFirst(sim, noises, n) ==
    IF n = 0 THEN [sim |-> sim, list |-> <<>>]
    ELSE LET before == ReadFirst(sim, noises, n - 1)
             pid == SimulatorPIDS[n]
         IN [sim |-> [before.sim EXCEPT !.current_values =
                         AfterRead(before.sim, pid, noises[pid])],
             list |-> Append(before.list,
                             read_pid(before.sim, pid, noises[pid]))]

\* OBDSimulator.__init__: every PID at its baseline, scenario "idle"
SimulatorInit ==
    simulator = [current_values |->
                    [pid \in Range(SimulatorPIDS) |-> Baseline(pid)],
                 scenario |-> "idle", reads |-> 0, out |-> None]

\* the simulator after a long run in "hard_driving" in which RPM and BOOST
\* were read and the two temperatures were not: 300 reads of RPM above
\* 3000 have added 150 to the oil temperature, 250 reads of BOOST above 15
\* have added 75 to the intake temperature
AfterHardDriving ==
    [current_values |->
        [pid \in Range(SimulatorPIDS) |->
            CASE pid = "RPM" -> 550000
              [] pid = "BOOST" -> 2100
              [] pid = "OIL_TEMP" -> Baseline(pid) + 300 * 50
              [] pid = "INTAKE_TEMP" -> Baseline(pid) + 250 * 30],
     scenario |-> "hard_driving", reads |-> 0, out |-> None]

\* sim.set_scenario(scenario): any string is taken; not called once the
\* reads are used up
SetScenario(scenario) ==
    /\ simulator.reads < MaxReads
    /\ scenario # simulator.scenario
    /\ simulator' = [simulator EXCEPT !.scenario = scenario]
    /\ UNCHANGED <<pvars, bvars, avars, svars, gwvars, mock_ecu, tasks,
                   stop>>

\* sim.read_pid(pid)
ReadPid(pid) ==
    /\ simulator.reads < MaxReads
    /\ \E noise \in (IF pid \in Range(SimulatorPIDS) THEN Noise(pid) ELSE {0}) :
          simulator' =
            [simulator EXCEPT
               !.current_values =
                  IF pid \in Range(SimulatorPIDS)
                  THEN AfterRead(simulator, pid, noise) ELSE @,
               !.reads = @ + 1,
               !.out = [call |-> "read_pid", pid |-> pid,
                        result |-> read_pid(simulator, pid, noise)]]
    /\ UNCHANGED <<pvars, bvars, avars, svars, gwvars, mock_ecu, tasks,
                   stop>>

\* sim.read_all(): [self.read_pid(pid) for pid in self.PIDS.keys()]
ReadAll ==
    /\ simulator.reads < MaxReads
    /\ \E noises \in [Range(SimulatorPIDS) -> {0 - 1, 0, 1}] :
          LET drawn == [pid \in Range(SimulatorPIDS) |->
                          noises[pid] * Config(pid).variance]
              done == ReadFirst(simulator, drawn, Len(SimulatorPIDS))
          IN simulator' =
               [simulator EXCEPT
                  !.current_values = done.sim.current_values,
                  !.reads = @ + 1,
                  !.out = [call |-> "read_all", pid |-> "all",
                           result |-> done.list]]
    /\ UNCHANGED <<pvars, bvars, avars, svars, gwvars, mock_ecu, tasks,
                   stop>>

\* a test or the stream of the simulator calling it
SimulatorNext ==
    \/ \E s \in Scenarios \cup {"track_day"} : SetScenario(s)
    \/ \E pid \in Range(SimulatorPIDS) \cup {"GEAR"} : ReadPid(pid)
    \/ ReadAll

(***************************************************************************)
(* src/st_telemetry/data_sources/mock_ecu.py: MockECU.  A task is a        *)
(* record of the list tasks and is named by its place in it; a step of a   *)
(* task runs from one await that suspends it to the next.                  *)
(***************************************************************************)
\* config.get_pids(): a PID with a warning threshold and one without
MockPIDS == {"oar", "boost"}

\* a float
Float(x) == [float |-> x]

\* pid.warning_threshold, None where the PID has none
warning_threshold(pid) == IF pid = "oar" THEN Float(0 - 1) ELSE None

\* the converted values a read of pid may give
MockValues(pid) ==
    IF pid = "oar" THEN {Float(0 - 1), Float(0)} ELSE {Float(5)}

\* len(self._callbacks[pid]): the callbacks register_callback has appended
NumCallbacks(pid) == IF pid = "oar" THEN 2 ELSE 1

\* no entry in self._tasks
NoTask == 0

\* MockECU.__init__ and initialize(), and the callbacks registered
MockInit ==
    /\ mock_ecu = [_streaming |-> FALSE,
                   _tasks |-> [pid \in MockPIDS |-> NoTask],
                   _previous_values |->
                      [pid \in MockPIDS |-> warning_threshold(pid)],
                   calls |-> 0, reads |-> 0, invoked |-> 0,
                   overlapped |-> FALSE, quiet |-> FALSE, out |-> None]
    /\ tasks = <<>>
    /\ stop = [pc |-> "idle", awaited |-> {}, started |-> FALSE]

\* _check_warning as it would be without the test of the previous value
_check_warning_AnyMove(previous, pid, converted_value) ==
    /\ warning_threshold(pid) # None
    /\ converted_value # warning_threshold(pid)

\* MockECU._check_warning: whether it returns a warning
_check_warning(previous, pid, converted_value) ==
    /\ warning_threshold(pid) # None
    /\ previous[pid] # None
    /\ previous[pid] = warning_threshold(pid)
    /\ converted_value # warning_threshold(pid)

\* self._previous_values once _check_warning has returned
Recorded(previous, pid, converted_value) ==
    IF warning_threshold(pid) # None
    THEN [previous EXCEPT ![pid] = converted_value]
    ELSE previous

\* the MockECU once read_pid(pid) has returned a data point of
\* converted_value
AfterMockRead(ecu, pid, converted_value) ==
    [ecu EXCEPT
       !._previous_values = Recorded(@, pid, converted_value),
       !.reads = @ + 1,
       !.out = [pid_name |-> pid, converted_value |-> converted_value,
                previous |-> ecu._previous_values[pid],
                warning |-> _check_warning(ecu._previous_values, pid,
                                           converted_value)]]

\* a caller awaits mock_ecu.read_pid(pid): no await inside suspends it
MockReadPid(pid) ==
    /\ mock_ecu.reads < MaxMockReads
    /\ \E v \in MockValues(pid) : mock_ecu' = AfterMockRead(mock_ecu, pid, v)
    /\ UNCHANGED <<pvars, bvars, avars, svars, gwvars, simulator, tasks, stop>>

\* the tasks of pid that have not finished
Live(pid) ==
    {i \in DOMAIN tasks : tasks[i].pid = pid /\ tasks[i].pc # "done"}

\* the tasks start_streaming creates, one per PID, in an order of the PIDs
NewTasks ==
    <<[pid |-> "oar", pc |-> "created", cancel |-> FALSE, cb |-> 0],
      [pid |-> "boost", pc |-> "created", cancel |-> FALSE, cb |-> 0]>>

\* the place in tasks \o NewTasks of the new task of pid
NewTask(pid) == Len(tasks) + (IF pid = "oar" THEN 1 ELSE 2)

\* start_streaming as it would be without its test of self._streaming
start_streaming_NoTest ==
    /\ mock_ecu.calls < MaxStreamCalls
    /\ mock_ecu' = [mock_ecu EXCEPT
                      !._streaming = TRUE,
                      !._tasks = [pid \in MockPIDS |-> NewTask(pid)],
                      !.calls = @ + 1,
                      !.overlapped = @ \/ stop.pc = "waiting",
                      !.quiet = FALSE]
    /\ tasks' = tasks \o NewTasks
    /\ stop' = [stop EXCEPT !.started = TRUE]
    /\ UNCHANGED <<pvars, bvars, avars, svars, gwvars, simulator>>

\* await mock_ecu.start_streaming(): it has no await, so it is one step
start_streaming ==
    /\ mock_ecu.calls < MaxStreamCalls
    /\ IF mock_ecu._streaming
       THEN /\ mock_ecu' = [mock_ecu EXCEPT
                              !.calls = @ + 1,
                              !.overlapped = @ \/ stop.pc = "waiting",
                              !.quiet = FALSE]
            /\ tasks' = tasks
       ELSE /\ mock_ecu' = [mock_ecu EXCEPT
                              !._streaming = TRUE,
                              !._tasks = [pid \in MockPIDS |-> NewTask(pid)],
                              !.calls = @ + 1,
                              !.overlapped = @ \/ stop.pc = "waiting",
                              !.quiet = FALSE]
            /\ tasks' = tasks \o NewTasks
    /\ stop' = [stop EXCEPT !.started = TRUE]
    /\ UNCHANGED <<pvars, bvars, avars, svars, gwvars, simulator>>

\* the tasks self._tasks holds
Tracked == {mock_ecu._tasks[pid] : pid \in MockPIDS} \ {NoTask}

\* await mock_ecu.stop_streaming() up to its await of asyncio.gather: a
\* call while not streaming returns at once, and so does one that finds
\* self._tasks empty; one stop_streaming call is made at a time
stop_streaming ==
    /\ mock_ecu.calls < MaxStreamCalls
    /\ stop.pc = "idle"
    /\ IF ~mock_ecu._streaming
       THEN /\ mock_ecu' = [mock_ecu EXCEPT !.calls = @ + 1, !.quiet = TRUE]
            /\ UNCHANGED <<tasks, stop>>
       ELSE /\ tasks' = [i \in DOMAIN tasks |->
                           IF i \in Tracked /\ tasks[i].pc # "done"
                           THEN [tasks[i] EXCEPT !.cancel = TRUE]
                           ELSE tasks[i]]
            /\ IF Tracked = {}
               THEN /\ mock_ecu' = [mock_ecu EXCEPT
                                      !._streaming = FALSE, !.calls = @ + 1,
                                      !.quiet = TRUE]
                    /\ stop' = stop
               ELSE /\ mock_ecu' = [mock_ecu EXCEPT
                                      !._streaming = FALSE, !.calls = @ + 1]
                    /\ stop' = [pc |-> "waiting", awaited |-> Tracked,
                                started |-> FALSE]
    /\ UNCHANGED <<pvars, bvars, avars, svars, gwvars, simulator>>

\* asyncio.gather(...) is done: self._tasks.clear() and stop_streaming
\* returns
StopReturns ==
    /\ stop.pc = "waiting"
    /\ \A i \in stop.awaited : tasks[i].pc = "done"
    /\ mock_ecu' = [mock_ecu EXCEPT
                      !._tasks = [pid \in MockPIDS |-> NoTask],
                      !.quiet = ~stop.started]
    /\ stop' = [stop EXCEPT !.pc = "idle", !.awaited = {}]
    /\ UNCHANGED <<pvars, bvars, avars, svars, gwvars, simulator, tasks>>

\* task i is run by the event loop, for the first time or out of
\* asyncio.sleep: a cancelled task ends (a task cancelled before its first
\* run never runs, CancelledError at the sleep leaves the loop by break);
\* otherwise `while self._streaming`, read_pid and the first callback
TaskRuns(i) ==
    /\ tasks[i].pc \in {"created", "sleep"}
    /\ IF tasks[i].cancel \/ ~mock_ecu._streaming
       THEN /\ tasks' = [tasks EXCEPT ![i].pc = "done"]
            /\ mock_ecu' = mock_ecu
       ELSE /\ mock_ecu.reads < MaxMockReads
            /\ \E v \in MockValues(tasks[i].pid) :
                  mock_ecu' =
                    [AfterMockRead(mock_ecu, tasks[i].pid, v) EXCEPT
                       !.invoked =
                          IF NumCallbacks(tasks[i].pid) > 0 THEN @ + 1 ELSE @]
            /\ tasks' = IF NumCallbacks(tasks[i].pid) > 0
                        THEN [tasks EXCEPT ![i].pc = "callback", ![i].cb = 1]
                        ELSE [tasks EXCEPT ![i].pc = "sleep"]
    /\ UNCHANGED <<pvars, bvars, avars, svars, gwvars, simulator, stop>>

\* the callback task i awaits is resumed: CancelledError raised in it
\* leaves the for loop and the while loop; a callback that returns is
\* followed by the next one of the list, the last one by asyncio.sleep
CallbackReturns(i) ==
    /\ tasks[i].pc = "callback"
    /\ IF tasks[i].cancel
       THEN /\ tasks' = [tasks EXCEPT ![i].pc = "done"]
            /\ mock_ecu' = mock_ecu
       ELSE IF tasks[i].cb < NumCallbacks(tasks[i].pid)
       THEN /\ tasks' = [tasks EXCEPT ![i].cb = @ + 1]
            /\ mock_ecu' = [mock_ecu EXCEPT !.invoked = @ + 1]
       ELSE /\ tasks' = [tasks EXCEPT ![i].pc = "sleep", ![i].cb = 0]
            /\ mock_ecu' = mock_ecu
    /\ UNCHANGED <<pvars, bvars, avars, svars, gwvars, simulator, stop>>

\* the MockECU with its stream tasks and the callers of its methods
MockNext ==
    \/ \E pid \in MockPIDS : MockReadPid(pid)
    \/ start_streaming
    \/ stop_streaming
    \/ StopReturns
    \/ \E i \in DOMAIN tasks : TaskRuns(i)
    \/ \E i \in DOMAIN tasks : CallbackReturns(i)

(***************************************************************************)
(* src/focusst_telemetry/ecu/obd_bridge.py: OBDBridge.read_data, the OAR   *)
(* branch.  oar_raw is kept in thousandths: float(raw_int) / 1000.0 is     *)
(* Float(raw_int).                                                         *)
(***************************************************************************)
Bytes == 0 .. 255

\* what _read_pid("2203E8") may return: None or no byte, one data byte, or
\* the two data bytes A, B
Responses == {<<>>, <<0>>} \cup (Bytes \X Bytes)

\* A, B = oar_data[0], oar_data[1]; raw_int = (A * 256) + B;
\* if raw_int > 32768: raw_int -= 65536
oar_raw_int(A, B) ==
    LET raw_int == (A * 256) + B
    IN  IF raw_int > 32768 THEN raw_int - 65536 ELSE raw_int

\* getattr(self, name, default) of an attribute that may not be set yet
getattr(value, default) == IF value = None THEN default ELSE value

\* OBDBridge(): poll_counter = 0, no _last_oar yet
BridgeInit ==
    obd_bridge = [poll_counter |-> 0, _last_oar |-> None,
                  out |-> [polled |-> FALSE, oar_data |-> <<>>,
                           oar |-> Float(-1000)]]

\* await bridge.read_data() with the serial connection open: every tenth
\* call asks for the OAR, the others return the last one
read_data ==
    /\ obd_bridge.poll_counter < MaxPolls
    /\ LET polled == obd_bridge.poll_counter % 10 = 0
       IN  \E oar_data \in IF polled THEN Responses ELSE {<<>>} :
              LET got == polled /\ Len(oar_data) >= 2
                  oar_raw ==
                      IF got
                      THEN Float(oar_raw_int(oar_data[1], oar_data[2]))
                      ELSE getattr(obd_bridge._last_oar, Float(-1000))
              IN  obd_bridge' =
                     [poll_counter |-> obd_bridge.poll_counter + 1,
                      _last_oar |-> IF got THEN oar_raw
                                    ELSE obd_bridge._last_oar,
                      out |-> [polled |-> polled, oar_data |-> oar_data,
                               oar |-> oar_raw]]
    /\ UNCHANGED <<pvars, bvars, avars, svars, simulator, mock_ecu, tasks,
                   stop, gateway>>

\* the caller of the bridge
BridgeNext == read_data

(***************************************************************************)
(* src/focusst_telemetry/gateway/app.py: TelemetryGateway.start, stop and  *)
(* _data_loop, as src/main.py uses them: start() once, stop() once.        *)
(*                                                                         *)
(* The data task stands before its first step ("created"), inside          *)
(* read_data ("read"), at the lock of the broadcaster ("lock"), in the     *)
(* sleep that ends a pass ("sleep") or in the sleep of the exception       *)
(* handler ("error_sleep"); it has returned ("done") or ended by           *)
(* CancelledError ("cancelled"), which `except Exception` does not catch.  *)
(***************************************************************************)
\* what a pass may meet: nothing, or an exception raised by the named call
Outcomes == {"ok", "read_data", "parse_all", "broadcast"}

Finished == {"done", "cancelled"}

\* TelemetryGateway(ecu): ecu.running is False, _data_task is None
GatewayInit ==
    gateway = [running |-> FALSE, task |-> "none", must_cancel |-> FALSE,
               stop_pc |-> "idle", iterations |-> 0, outcomes |-> <<>>,
               errors |-> 0, broadcasts |-> 0, mark |-> 0]

\* await gateway.start(): ecu.start() sets running and connects;
\* self._data_task = asyncio.create_task(self._data_loop())
GatewayStart ==
    /\ gateway.task = "none"
    /\ gateway' = [gateway EXCEPT !.running = TRUE, !.task = "created"]
    /\ UNCHANGED <<pvars, bvars, avars, svars, simulator, mock_ecu, tasks,
                   stop, obd_bridge>>

\* the data task is run by the event loop, for the first time or out of a
\* sleep: CancelledError ends it; otherwise `while self.ecu.running` is
\* tested and read_data is called
LoopRuns ==
    /\ gateway.task \in {"created", "sleep", "error_sleep"}
    /\ IF gateway.must_cancel
       THEN gateway' = [gateway EXCEPT !.task = "cancelled"]
       ELSE IF ~gateway.running
       THEN gateway' = [gateway EXCEPT !.task = "done"]
       ELSE /\ gateway.iterations < MaxIterations
            /\ gateway' = [gateway EXCEPT !.task = "read",
                                          !.iterations = @ + 1]
    /\ UNCHANGED <<pvars, bvars, avars, svars, simulator, mock_ecu, tasks,
                   stop, obd_bridge>>

\* ReadReturns as it would be without the try statement: an exception ends
\* the loop
ReadReturns_Uncaught ==
    /\ gateway.task = "read"
    /\ IF gateway.must_cancel
       THEN gateway' = [gateway EXCEPT !.task = "cancelled"]
       ELSE \E outcome \in Outcomes \cup {"wait"} :
               CASE outcome = "ok" ->
                      gateway' = [gateway EXCEPT
                                     !.task = "sleep",
                                     !.outcomes = Append(@, outcome),
                                     !.broadcasts = @ + 1]
                 [] outcome = "wait" ->
                      gateway' = [gateway EXCEPT !.task = "lock"]
                 [] OTHER ->
                      gateway' = [gateway EXCEPT
                                     !.task = "done",
                                     !.outcomes = Append(@, outcome)]
    /\ UNCHANGED <<pvars, bvars, avars, svars, simulator, mock_ecu, tasks,
                   stop, obd_bridge>>

\* read_data returns or raises; parse_all returns or raises; broadcast puts
\* the payload into the queues, raises, or finds the lock taken and waits.
\* An exception is caught by `except Exception`, logged, and the handler
\* sleeps.
ReadReturns ==
    /\ gateway.task = "read"
    /\ IF gateway.must_cancel
       THEN gateway' = [gateway EXCEPT !.task = "cancelled"]
       ELSE \E outcome \in Outcomes \cup {"wait"} :
               CASE outcome = "ok" ->
                      gateway' = [gateway EXCEPT
                                     !.task = "sleep",
                                     !.outcomes = Append(@, outcome),
                                     !.broadcasts = @ + 1]
                 [] outcome = "wait" ->
                      gateway' = [gateway EXCEPT !.task = "lock"]
                 [] OTHER ->
                      gateway' = [gateway EXCEPT
                                     !.task = "error_sleep",
                                     !.outcomes = Append(@, outcome),
                                     !.errors = @ + 1]
    /\ UNCHANGED <<pvars, bvars, avars, svars, simulator, mock_ecu, tasks,
                   stop, obd_bridge>>

\* the lock of the broadcaster is free again: the payload is put into the
\* queues and the pass ends in its sleep; CancelledError ends the task
LockAcquired ==
    /\ gateway.task = "lock"
    /\ IF gateway.must_cancel
       THEN gateway' = [gateway EXCEPT !.task = "cancelled"]
       ELSE gateway' = [gateway EXCEPT !.task = "sleep",
                                       !.outcomes = Append(@, "ok"),
                                       !.broadcasts = @ + 1]
    /\ UNCHANGED <<pvars, bvars, avars, svars, simulator, mock_ecu, tasks,
                   stop, obd_bridge>>

\* await gateway.stop() is called: ecu.stop() sets running to False and
\* awaits disconnect()
GatewayStop ==
    /\ gateway.stop_pc = "idle"
    /\ gateway.task # "none"
    /\ gateway' = [gateway EXCEPT !.running = FALSE, !.stop_pc = "disconnect"]
    /\ UNCHANGED <<pvars, bvars, avars, svars, simulator, mock_ecu, tasks,
                   stop, obd_bridge>>

\* disconnect() has returned: self._data_task.cancel(), which does nothing
\* to a task that has finished; await self._data_task
StopCancels ==
    /\ gateway.stop_pc = "disconnect"
    /\ gateway' = [gateway EXCEPT
                      !.must_cancel = gateway.task \notin Finished,
                      !.stop_pc = "await"]
    /\ UNCHANGED <<pvars, bvars, avars, svars, simulator, mock_ecu, tasks,
                   stop, obd_bridge>>

\* GatewayStopReturns as it would be without `await self._data_task`
GatewayStopReturns_NoAwait ==
    /\ gateway.stop_pc = "await"
    /\ gateway' = [gateway EXCEPT !.stop_pc = "returned",
                                  !.mark = gateway.broadcasts]
    /\ UNCHANGED <<pvars, bvars, avars, svars, simulator, mock_ecu, tasks,
                   stop, obd_bridge>>

\* the data task has finished: await self._data_task returns or raises
\* CancelledError, which is passed over, and stop() returns
GatewayStopReturns ==
    /\ gateway.stop_pc = "await"
    /\ gateway.task \in Finished
    /\ gateway' = [gateway EXCEPT !.stop_pc = "returned",
                                  !.mark = gateway.broadcasts]
    /\ UNCHANGED <<pvars, bvars, avars, svars, simulator, mock_ecu, tasks,
                   stop, obd_bridge>>

\* the gateway, its data task and src/main.py
GatewayNext ==
    \/ GatewayStart
    \/ LoopRuns
    \/ ReadReturns
    \/ LockAcquired
    \/ GatewayStop
    \/ StopCancels
    \/ GatewayStopReturns

\* the event loop runs every task that is ready
GatewayFairness ==
    /\ WF_vars(LoopRuns)
    /\ WF_vars(ReadReturns)
    /\ WF_vars(LockAcquired)
    /\ WF_vars(StopCancels)
    /\ WF_vars(GatewayStopReturns)


(***************************************************************************)
(* The specifications.                                                     *)
(***************************************************************************)
\* the data sources as constructed
SourcesInit == SimulatorInit /\ MockInit /\ BridgeInit /\ GatewayInit

\* the rest of the repository as constructed, under one of its settings,
\* while a data source is at work
Idle ==
    /\ PipelineInit
    /\ db_alert_configs = <<Rule1>>
    /\ ~enable_cloud_sync
    /\ BroadcasterInit
    /\ AlertsInit
    /\ StoreInit

\* the sampling pipeline of src/app.py; the gateway's Broadcaster stays as
\* constructed
Init ==
    PipelineInit /\ BroadcasterInit /\ AlertsInit /\ StoreInit /\ SourcesInit

Next == PipelineNext

Spec == Init /\ [][Next]_vars

\* the Broadcaster of src/focusst_telemetry/gateway; the pipeline of
\* src/app.py stays as constructed, under one of its settings
InitBroadcaster ==
    /\ PipelineInit
    /\ db_alert_configs = <<Rule1>>
    /\ ~enable_cloud_sync
    /\ BroadcasterInit
    /\ AlertsInit
    /\ StoreInit
    /\ SourcesInit

SpecBroadcaster == InitBroadcaster /\ [][BroadcasterNext]_vars

\* the alert evaluator of src/alerts.py with the alert endpoints of
\* src/app.py; cloud sync is off and no WebSocket is connected
InitAlerts ==
    /\ PipelineInit
    /\ ~enable_cloud_sync
    /\ BroadcasterInit
    /\ AlertsInit
    /\ StoreInit
    /\ SourcesInit

SpecAlerts == InitAlerts /\ [][AlertsNext]_vars

\* the pipeline of src/app.py from startup_event to shutdown_event, with
\* cloud sync on and its API URL set
InitLifecycle ==
    /\ Init
    /\ db_alert_configs = <<Rule1>>
    /\ enable_cloud_sync
    /\ api_url

SpecLifecycle == InitLifecycle /\ [][LifecycleNext]_vars

\* the store of src/database.py with the worker that fills it and the
\* callers that read and trim it
InitStore ==
    /\ Init
    /\ db_alert_configs = <<Rule1>>
    /\ ~enable_cloud_sync

SpecStore == InitStore /\ [][StoreNext]_vars

\* the simulator of src/obd_simulator.py, new or after a long run
InitSimulator ==
    /\ Idle
    /\ \/ SimulatorInit
       \/ simulator = AfterHardDriving
    /\ MockInit
    /\ BridgeInit
    /\ GatewayInit

SpecSimulator == InitSimulator /\ [][SimulatorNext]_vars

\* the MockECU of src/st_telemetry, initialized, with its callbacks
\* registered
InitMock == Idle /\ SourcesInit

SpecMockECU == InitMock /\ [][MockNext]_vars

\* the OBD bridge of src/focusst_telemetry, connected
SpecOBDBridge == InitMock /\ [][BridgeNext]_vars

\* the gateway of src/focusst_telemetry, constructed by src/main.py; the
\* event loop is fair to its tasks
SpecGateway == InitMock /\ [][GatewayNext]_vars /\ GatewayFairness

\* no handler and no publishing task of the gateway has taken a step
GatewayIdle ==
    /\ published = 0
    /\ \A h \in Handlers : hpc[h] = "idle"
    /\ \A p \in Publishers : ppc[p] = "idle"

\* the two programs of the repository that publish readings: a run is a run
\* of the application of src/app.py or a run of the gateway of
\* src/focusst_telemetry, whichever takes the first step
OrderingNext ==
    \/ GatewayIdle /\ LifecycleNext
    \/ wpc = "not_started" /\ BroadcasterNext

SpecOrdering == InitLifecycle /\ [][OrderingNext]_vars

(***************************************************************************)
(* Claims about the sampling pipeline (specification Spec).                *)
(***************************************************************************)
\* whether step b may be the step the worker logs right after step a
Follows(a, b) ==
    \/ /\ a.seq = b.seq
       /\ \/ a.step = "insert" /\ b.step \in {"evaluate", "evaluate_error"}
          \/ /\ a.step = "evaluate"
             /\ b.step = IF enable_cloud_sync THEN "push" ELSE "broadcast"
          \/ a.step = "push" /\ b.step = "broadcast"
          \/ a.step = "broadcast" /\ b.step = "broadcast_done"
    \/ /\ a.seq < b.seq
       /\ a.step = "broadcast_done"
       /\ b.step \in {"insert", "insert_error"}

\* C1: for every reading the worker inserts, then evaluates, then submits to
\* the cloud queue (when cloud sync is on), then broadcasts; the broadcast of
\* a reading has returned before the insert of the next one, and readings
\* are taken in the order of the batch.
C1_StepsInOrder ==
    /\ log # <<>> => log[1].step \in {"insert", "insert_error"}
    /\ \A i \in DOMAIN log : i < Len(log) => Follows(log[i], log[i + 1])

\* two readings have gone through all four steps
C1_Witness ==
    /\ enable_cloud_sync
    /\ \E i, j \in DOMAIN log :
          /\ i < j
          /\ log[i].step = "broadcast_done"
          /\ log[j].step = "broadcast_done"
          /\ \E k \in DOMAIN log : log[k] = [seq |-> log[j].seq, step |-> "push"]

\* C2: an error raised while a reading is processed never ends the loop of
\* telemetry_stream_worker (only cancellation does).
C2_ErrorNeverStopsLoop ==
    ~ /\ wpc = "crashed"
      /\ log # <<>>
      /\ log[Len(log)].step \in {"insert_error", "evaluate_error"}

\* C3: a reading whose store insert failed is still evaluated (and then
\* broadcast): the worker goes on to evaluate that same reading.
C3_InsertFailureStillForwarded ==
    \A i \in DOMAIN log :
        log[i].step = "insert_error" =>
            IF i = Len(log)
            THEN wpc \in {"evaluate", "cancelled"}
            ELSE /\ log[i + 1].seq = log[i].seq
                 /\ log[i + 1].step \in {"evaluate", "evaluate_error"}

\* C4: CloudSync.push never suspends its caller on a full queue.
C4_PushNeverBlocks == wpc # "put_wait"

\* C8: while the worker awaits a send to a subscriber, that send can return:
\* no subscriber keeps the worker from the other subscribers and from the
\* next reading.
C8_SlowSubscriberDoesNotStall == (wpc = "send") => ENABLED SendReturns

\* C9: during a broadcast, every connection that has been registered since
\* the broadcast began has had its send or is still ahead of the iterator,
\* and none has had two sends: a concurrent connect or disconnect makes the
\* loop neither skip nor repeat a subscriber.
C9_NoSubscriberSkipped ==
    (wpc = "send") =>
        \A c \in present :
            /\ Cardinality({k \in DOMAIN sent_to : sent_to[k] = c}) <= 1
            /\ \/ c \in Range(sent_to)
               \/ \E k \in DOMAIN active_connections :
                     k > bidx /\ active_connections[k] = c

(***************************************************************************)
(* Claims about the Broadcaster (specification SpecBroadcaster).           *)
(***************************************************************************)
\* the broadcast() call in progress has yet to visit queue q
Pending(q) == \E p \in Publishers : lock = p /\ q \in todo[p]

\* the broadcast() call in progress has noted queue q for removal
Doomed(q) == \E p \in Publishers : lock = p /\ q \in clients_to_remove[p]

\* the payloads the handler of queue q has taken off it
Consumed(q) == Len(delivered[q]) - Len(queues[q])

\* C5: broadcast() tries put_nowait on every queue of the set; a queue found
\* full is out of the set when that same call ends, and no later payload is
\* ever put on it.
C5_FullSubscriberEvicted ==
    /\ \A p \in Publishers :
          ppc[p] = "iterate" =>
             \A q \in snapshot[p] \ todo[p] :
                \/ q \in clients_to_remove[p]
                \/ /\ delivered[q] # <<>>
                   /\ delivered[q][Len(delivered[q])] = payload[p]
    /\ \A q \in DOMAIN full_at :
          full_at[q] > 0 =>
             /\ q \in clients =>
                   \E p \in Publishers :
                      /\ lock = p
                      /\ payload[p] = full_at[q]
                      /\ q \in clients_to_remove[p]
             /\ \A i \in DOMAIN delivered[q] : delivered[q][i] < full_at[q]

\* a queue was found full and removed, and a later broadcast() has ended
C5_Witness ==
    \E q \in DOMAIN full_at :
        /\ full_at[q] > 0
        /\ q \notin clients
        /\ published > full_at[q]
        /\ lock = "None"

\* C6: a queue nothing was taken from is out of the set when the
\* (QueueMaxsize+1)-th broadcast() after its registration ends, and every
\* queue that stays in the set holds or has held every payload published
\* since it was registered.
C6_EvictedByKPlusOne ==
    \A q \in clients :
        /\ Consumed(q) = 0 =>
              \/ published - first[q] <= QueueMaxsize
              \/ /\ published - first[q] = QueueMaxsize + 1
                 /\ Pending(q) \/ Doomed(q)
        /\ ~Doomed(q) =>
              delivered[q] =
                 [i \in 1..(published - first[q] - IF Pending(q) THEN 1 ELSE 0)
                    |-> first[q] + i]

\* a queue nothing was taken from was removed on its (QueueMaxsize+1)-th
\* payload, and another queue of the set got that payload
C6_Witness ==
    \E q, r \in DOMAIN first :
        /\ q # r
        /\ Consumed(q) = 0
        /\ full_at[q] = first[q] + QueueMaxsize + 1
        /\ q \notin clients
        /\ r \in clients
        /\ lock = "None"
        /\ \E i \in DOMAIN delivered[r] : delivered[r][i] = full_at[q]

\* C7: a broadcast() call inside the lock can always take its next step,
\* whatever the queues hold, and makes one put_nowait call per queue of its
\* snapshot; a call that waits for the lock waits for a call of that kind.
C7_BroadcastNeverBlocks ==
    \A p \in Publishers :
        /\ ppc[p] = "iterate" =>
              /\ lock = p
              /\ ENABLED (BroadcastPut(p) \/ BroadcastRemove(p))
              /\ attempts[p] + Cardinality(todo[p]) = Cardinality(snapshot[p])
        /\ ppc[p] = "acquire" =>
              \/ lock = "None"
              \/ lock \in Publishers /\ ppc[lock] = "iterate"

\* a broadcast() call has only full queues left to visit while another
\* call waits for the lock and a handler waits to register or unregister
C7_Witness ==
    \E p, r \in Publishers :
        /\ ppc[p] = "iterate"
        /\ todo[p] # {}
        /\ \A q \in todo[p] : Len(queues[q]) >= maxsize[q]
        /\ ppc[r] = "acquire"
        /\ \E h \in Handlers : hpc[h] \in {"register", "unregister"}

\* C10: every queue has the capacity it was created with and never holds
\* more than that; put_nowait on a full queue is a step the caller can take.
C10_QueueBounded ==
    /\ \A q \in DOMAIN maxsize :
          /\ maxsize[q] = QueueMaxsize
          /\ Len(queues[q]) <= maxsize[q]
    /\ \A p \in Publishers :
          \A q \in todo[p] :
             (ppc[p] = "iterate" /\ Len(queues[q]) >= maxsize[q])
                => ENABLED put_nowait(p, q)

\* a queue that was drained in part is full again and was found full
C10_Witness ==
    \E q \in DOMAIN maxsize :
        /\ Consumed(q) > 0
        /\ Len(queues[q]) = maxsize[q]
        /\ full_at[q] > 0

\* C11: unregister() takes the queue out of the set and raises nothing (the
\* handler ends closed); called for a queue that is not in the set, because
\* broadcast() evicted it or because it was unregistered before, it leaves
\* the set as it was.
C11_UnregisterIdempotent ==
    [][\A h \in Handlers :
          (hpc[h] = "unregister" /\ hpc'[h] # "unregister") =>
             /\ hpc'[h] = "closed"
             /\ h \notin clients'
             /\ \A q \in Handlers \ {h} : q \in clients' <=> q \in clients
             /\ h \notin clients => clients' = clients
             /\ discard(clients', h) = clients']_vars

\* a handler has unregistered a queue that broadcast() had evicted before,
\* while another queue stayed registered
C11_Witness ==
    \E h \in Handlers :
        /\ hpc[h] = "closed"
        /\ full_at[h] > 0
        /\ clients # {}

\* TelemetryGateway.stop() has returned
Stopped == \A p \in Publishers : ppc[p] = "cancelled"

\* C21: once the gateway is stopped, a handler that waits on its queue can
\* take a step: it has a payload to take, or it is told that the queue is
\* closed.
C21_StopClosesQueues ==
    Stopped => \A h \in Handlers : hpc[h] = "get" => ENABLED HandlerStep(h)

\* broadcast() found queue q full and took it out of the set
Evicted(q) == q \in DOMAIN full_at /\ full_at[q] > 0 /\ q \notin clients

\* C23: the handler of an evicted queue never stands at queue.get() with
\* nothing left to take and no step to take: once it has consumed what was
\* queued its connection ends.
C23_EvictedSeesEnd ==
    \A h \in Handlers :
        (Evicted(h) /\ hpc[h] = "get" /\ queues[h] = <<>>) =>
            ENABLED (SendJson(h) \/ Unregister(h))

(***************************************************************************)
(* Claims about the alert evaluator (specification SpecAlerts).            *)
(***************************************************************************)
\* an evaluate() call has returned and no other has been made since:
\* reading, ev_list and triggered_alerts are those of that call
Returned == epc = "idle" /\ results # <<>>

\* the events evaluate() builds for a reading from the rules of list
EventsOf(list, pid, value) ==
    LET f == SelectSeq(list, LAMBDA a : Fires(a, pid, value))
    IN [k \in DOMAIN f |-> AlertData(f[k], pid, value)]

\* the events of triggered_alerts that stem from rule a
EventsFor(a) ==
    {k \in DOMAIN triggered_alerts : triggered_alerts[k].alert_id = a.id}

\* C12: a rule bound to the reading's pid has an event in the list
\* evaluate() returns exactly when its operator, read as gt >, gte >=, lt <,
\* lte <=, eq = and neq #, is true of (value, threshold).
C12_ConditionSemantics ==
    Returned =>
        \A k \in DOMAIN ev_list :
            LET a == ev_list[k]
                v == reading.value
                t == a.threshold
                fired == EventsFor(a) # {}
            IN a.pid = reading.pid =>
                  /\ a.condition = "gt"  => (fired <=> v > t)
                  /\ a.condition = "gte" => (fired <=> v >= t)
                  /\ a.condition = "lt"  => (fired <=> v < t)
                  /\ a.condition = "lte" => (fired <=> v =< t)
                  /\ a.condition = "eq"  => (fired <=> v = t)
                  /\ a.condition = "neq" => (fired <=> v # t)

\* for one reading a gt rule whose threshold is below the value has
\* triggered and a gt rule whose threshold equals the value has not
C12_Witness ==
    /\ Returned
    /\ \E j, k \in DOMAIN ev_list :
          /\ ev_list[j].pid = reading.pid
          /\ ev_list[j].condition = "gt"
          /\ ev_list[j].threshold < reading.value
          /\ EventsFor(ev_list[j]) # {}
          /\ ev_list[k].pid = reading.pid
          /\ ev_list[k].condition = "gt"
          /\ ev_list[k].threshold = reading.value
          /\ EventsFor(ev_list[k]) = {}

\* C13: all through an evaluate() call the rows it has written to
\* alert_history match its triggered_alerts one for one; the list it
\* returns holds one event for every loaded rule that is bound to the
\* reading's pid and holds, and none for any other rule.
C13_OneEventPerRule ==
    /\ (epc \in {"log_alert", "email", "raised"} \/ Returned) =>
          /\ Len(alert_history) - ev_mark = Len(triggered_alerts)
          /\ \A k \in DOMAIN triggered_alerts :
                LET row == alert_history[ev_mark + k]
                    e == triggered_alerts[k]
                IN /\ row.alert_config_id = e.alert_id
                   /\ row.pid = e.pid
                   /\ row.value = e.value
                   /\ row.session_id = current_session_id
    /\ Returned =>
          \A k \in DOMAIN ev_list :
             Cardinality(EventsFor(ev_list[k])) =
                IF /\ ev_list[k].pid = reading.pid
                   /\ ev_list[k].condition \in KnownConditions
                   /\ CONDITION_OPS(ev_list[k].condition, reading.value,
                                    ev_list[k].threshold)
                THEN 1 ELSE 0

\* a call has returned two events and written two rows, with a rule bound
\* to another pid loaded
C13_Witness ==
    /\ Returned
    /\ Len(triggered_alerts) = 2
    /\ Len(alert_history) >= ev_mark + 2
    /\ \E k \in DOMAIN ev_list : ev_list[k].pid # reading.pid

\* C14: evaluate() keeps nothing from one call to the next: two calls with
\* the same reading and the same rules return the events of the same rules,
\* and rule 1 (BOOST gt 20) gives one event for every BOOST reading of 22,
\* none for 18, whatever came before.
C14_NoCooldown ==
    /\ \A i, j \in DOMAIN results :
          (/\ results[i].pid = results[j].pid
           /\ results[i].value = results[j].value
           /\ results[i].rules = results[j].rules)
             => results[i].fired = results[j].fired
    /\ \A i \in DOMAIN results :
          (results[i].pid = "BOOST" /\ Rule1.id \in Range(results[i].rules)) =>
             Cardinality({k \in DOMAIN results[i].fired :
                            results[i].fired[k] = Rule1.id}) =
                IF results[i].value > 20 THEN 1 ELSE 0

\* with rule 1 alone, the readings BOOST 18, 22, 22 gave no event, one
\* event and one event
C14_Witness ==
    /\ Len(results) = 3
    /\ \A i \in 1..3 : results[i].pid = "BOOST" /\ results[i].rules = <<1>>
    /\ results[1].value = 18 /\ results[1].fired = <<>>
    /\ results[2].value = 22 /\ results[2].fired = <<1>>
    /\ results[3].value = 22 /\ results[3].fired = <<1>>
    /\ Len(alert_history) = 2

\* the rows of table alert_configs that were enabled when get_alerts() last
\* read it
EnabledAtLoad == SelectSeq(db_at_load, LAMBDA row : row.enabled)

\* C15: the evaluator's rule set is the set of rows that were enabled when
\* the table was last read for a load: a row disabled since then is still
\* in it, a row that was disabled at that read is not.
C15_RuleSetIsSnapshot ==
    /\ (wpc # "not_started" /\ lpc # "assign") => alert_configs = EnabledAtLoad
    /\ lpc = "assign" => l_rows = EnabledAtLoad
    /\ epc \in {"log_alert", "email"} => ev_alert \in Range(ev_list)

\* after a reload that dropped a disabled rule, evaluate() triggers a rule
\* that has been disabled in the store since that reload
C15_Witness ==
    /\ epc = "log_alert"
    /\ ~db_alert_configs[ev_alert.id].enabled
    /\ ev_alert \in Range(alert_configs)
    /\ replies # <<>>
    /\ \E i \in DOMAIN db_at_load :
          /\ ~db_at_load[i].enabled
          /\ \A k \in DOMAIN alert_configs : alert_configs[k].id # i

\* C16: an evaluate() call takes every rule from the list that was loaded
\* when it was called, also when load_alerts() replaces self.alert_configs
\* while the call is suspended: the rule at hand is the one at the loop's
\* position in that list, the events so far are those of the rules before
\* it, and the events returned are those of that list.
C16_EvaluateUsesOneSnapshot ==
    /\ epc \in {"log_alert", "email"} =>
          /\ ev_i \in DOMAIN ev_list
          /\ ev_alert = ev_list[ev_i]
          /\ triggered_alerts =
                EventsOf(SubSeq(ev_list, 1,
                                IF epc = "email" THEN ev_i ELSE ev_i - 1),
                         reading.pid, reading.value)
    /\ Returned =>
          triggered_alerts = EventsOf(ev_list, reading.pid, reading.value)

\* load_alerts() has replaced the rule set while evaluate() is suspended
\* with rules of its list still ahead
C16_Witness ==
    /\ epc \in {"log_alert", "email"}
    /\ ev_i < Len(ev_list)
    /\ alert_configs # ev_list
    /\ \E k \in DOMAIN alert_configs :
          /\ Fires(alert_configs[k], reading.pid, reading.value)
          /\ alert_configs[k] \notin Range(ev_list)

\* C17: a rule whose condition is no key of CONDITION_OPS is answered with
\* an error when it is submitted.
C17_UnknownConditionReported ==
    \A k \in DOMAIN replies :
        db_alert_configs[replies[k].id].condition \notin KnownConditions
            => replies[k].error

\* C18: evaluate() never stands waiting for the delivery of a notification.
C18_DeliveryOffCriticalPath == epc # "email"

(***************************************************************************)
(* Claims about notification (specification Spec).                         *)
(***************************************************************************)
\* the rows of alert_history written for rule a
RowsOf(a) ==
    {k \in DOMAIN alert_history : alert_history[k].alert_config_id = a.id}

\* the events of rule a handed to _send_email_notification
EmailsOf(a) == {k \in DOMAIN emails : emails[k].alert_id = a.id}

\* C19 as stated: the events of a rule without email_notify are never
\* handed to the notification, those of a rule with email_notify all are.
C19_NotifyOnlyIfSet ==
    \A i \in DOMAIN db_alert_configs :
        LET a == db_alert_configs[i]
        IN Cardinality(EmailsOf(a)) =
              IF a.email_notify THEN Cardinality(RowsOf(a)) ELSE 0

\* C19: the events of a rule are handed to the email notification exactly
\* when the rule has email_notify and settings.enable_email_alerts is on; the
\* cloud queue, with cloud sync on, is given every reading with all of its
\* events, whatever the email_notify of their rules.
C19_NotifyIfSetAndEnabled ==
    /\ \A i \in DOMAIN db_alert_configs :
          LET a == db_alert_configs[i]
          IN Cardinality(EmailsOf(a)) =
                IF a.email_notify /\ enable_email_alerts
                THEN Cardinality(RowsOf(a)) ELSE 0
    /\ \A k \in DOMAIN queue :
          queue[k].alerts = TriggeredAlerts(queue[k].pid, queue[k].value)

\* with email alerts on, an event of a rule with email_notify was handed
\* over and an event of a rule without it was not, and the cloud queue holds
\* a reading with an event of the rule without email_notify
C19_Witness ==
    /\ enable_email_alerts
    /\ \E i, j \in DOMAIN db_alert_configs :
          /\ db_alert_configs[i].email_notify
          /\ EmailsOf(db_alert_configs[i]) # {}
          /\ ~db_alert_configs[j].email_notify
          /\ RowsOf(db_alert_configs[j]) # {}
          /\ EmailsOf(db_alert_configs[j]) = {}
          /\ \E k \in DOMAIN queue :
                \E n \in DOMAIN queue[k].alerts :
                   queue[k].alerts[n].alert_id = db_alert_configs[j].id

\* push() calls of the worker that have enqueued their event
Pushes == Cardinality({k \in DOMAIN log : log[k].step = "push"})

\* C20: CloudSync.worker, once started with an API URL, never ends: after a
\* failed delivery it sleeps and then goes back to the queue; every event
\* pushed is either still queued or was taken once, sent or failed, and a
\* failed one is not put back.
C20_WorkerSurvivesFailure ==
    /\ (wpc # "not_started" /\ enable_cloud_sync /\ api_url) =>
          cloud_worker \in {"running", "sleeping"}
    /\ cloud_worker = "sleeping" =>
          /\ cloud_out.last = "failed"
          /\ ENABLED CloudWorkerWake
    /\ (cloud_worker = "running" /\ queue # <<>>) => ENABLED CloudWorkerGet
    /\ cloud_out.taken + Len(queue) = Pushes

\* after a failed delivery the worker has sent a later event
C20_Witness ==
    /\ cloud_out.failed
    /\ cloud_out.last = "sent"
    /\ cloud_worker = "running"

(***************************************************************************)
(* Claims about start and stop of the pipeline (specification              *)
(* SpecLifecycle).                                                         *)
(***************************************************************************)
\* the steps the worker has logged since shutdown_event returned
AfterShutdown == {k \in DOMAIN log : k > shut.mark}

\* C22: once shutdown_event has returned the worker pulls no batch from the
\* source, no reading is inserted, evaluated, pushed or broadcast, and
\* CloudSync.worker runs no more.
C22_StopStopsPipeline ==
    shut.pc = "done" =>
        /\ pulled = shut.pulled
        /\ \A k \in AfterShutdown :
              log[k].step \notin {"insert", "evaluate", "push", "broadcast"}
        /\ cloud_worker \notin {"running", "sleeping"}

\* where the worker stands inside its loop over hal.stream()
InLoop == {"stream", "insert", "evaluate", "push", "put_wait", "broadcast",
           "send"}

\* what holds of table telemetry_sessions in every state
SessionOnce ==
    /\ Len(telemetry_sessions) <= 1
    /\ wpc \in InLoop =>
          /\ Len(telemetry_sessions) = 1
          /\ telemetry_sessions[1].session_id = current_session_id
    /\ \A i \in DOMAIN telemetry_sessions :
          /\ shut.pc = "no" => telemetry_sessions[i].end_time = None
          /\ shut.pc \in {"close", "done"} =>
                telemetry_sessions[i].end_time = adapt_datetime(datetime_now)

\* what holds of every step: a row whose end_time is set stays as it is
EndTimeKept ==
    \A i \in DOMAIN telemetry_sessions :
        telemetry_sessions[i].end_time # None =>
            /\ i \in DOMAIN telemetry_sessions'
            /\ telemetry_sessions'[i] = telemetry_sessions[i]

\* C30: the worker creates one session, before its loop, and no other is
\* ever created; shutdown_event sets the end_time of that session, and a
\* row whose end_time is set is changed by no later step.
C30_SessionOnceEndKept == []SessionOnce /\ [][EndTimeKept]_vars

\* the session was ended by shutdown_event and the worker has logged steps
\* since
C30_Witness ==
    /\ shut.pc = "done"
    /\ Len(telemetry_sessions) = 1
    /\ telemetry_sessions[1].end_time # None
    /\ AfterShutdown # {}

(***************************************************************************)
(* Claims about ordering (specification SpecOrdering).                     *)
(***************************************************************************)
\* the positions of log at which the worker logged step, in order
RECURSIVE StepsOf(_, _)
StepsOf(step, n) ==
    IF n = 0 THEN <<>>
    ELSE IF log[n].step = step
         THEN Append(StepsOf(step, n - 1), n)
         ELSE StepsOf(step, n - 1)

\* the batch and the place in its batch of the reading numbered seq
BatchOf(seq) == ((seq - 1) \div Len(PIDS)) + 1
PlaceOf(seq) == ((seq - 1) % Len(PIDS)) + 1

\* whether the sequence of numbers s grows strictly
Increasing(s) == \A i, j \in DOMAIN s : i < j => s[i] < s[j]

\* the worker of src/app.py: inserts and broadcasts follow the order of the
\* source, and the rows of telemetry_data are the inserted readings in that
\* order
PipelineInOrder ==
    LET ins  == StepsOf("insert", Len(log))
        bro  == StepsOf("broadcast", Len(log))
    IN /\ Increasing([k \in DOMAIN ins |-> log[ins[k]].seq])
       /\ Increasing([k \in DOMAIN bro |-> log[bro[k]].seq])
       /\ Len(telemetry_data) = Len(ins)
       /\ \A k \in DOMAIN ins :
             LET seq == log[ins[k]].seq
             IN /\ telemetry_data[k].session_id = current_session_id
                /\ telemetry_data[k].pid = PIDS[PlaceOf(seq)]
                /\ BatchOf(seq) = pulled =>
                      /\ telemetry_data[k].value =
                            data_batch[PlaceOf(seq)].value
                      /\ telemetry_data[k].unit = data_batch[PlaceOf(seq)].unit

\* the gateway: what a queue holds is the end of what was put on it, so
\* what its handler has taken is the beginning, in the order of publication
SubscriberInOrder ==
    \A q \in DOMAIN queues :
        /\ Increasing(delivered[q])
        /\ Len(queues[q]) <= Len(delivered[q])
        /\ queues[q] = SubSeq(delivered[q],
                              Len(delivered[q]) - Len(queues[q]) + 1,
                              Len(delivered[q]))

\* C24: readings are inserted and broadcast in the order the source emitted
\* them, the rows of telemetry_data stand in that order, and every handler
\* takes the payloads of its queue in the order they were published, each
\* once.
C24_OrderKept == PipelineInOrder /\ SubscriberInOrder

\* a handler has taken a payload while later ones were queued behind it,
\* and a payload published after that was put on its queue
C24_Witness ==
    \E q \in DOMAIN queues :
        /\ Consumed(q) >= 1
        /\ Len(queues[q]) = 2
        /\ published >= 4
        /\ delivered[q][Len(delivered[q])] = published

(***************************************************************************)
(* Claims about the store, under SpecStore.                                *)
(***************************************************************************)
\* row r is of the session of range query q and within its bounds
InRange(r, q) ==
    /\ r.session_id = q.session_id
    /\ q.start_time # None => fromisoformat(r.timestamp).datetime >= q.start_time.datetime
    /\ q.end_time # None => fromisoformat(r.timestamp).datetime =< q.end_time.datetime

\* the rows of a list are different rows
Distinct(rows) ==
    \A i \in DOMAIN rows : \A j \in DOMAIN rows : i # j => rows[i].id # rows[j].id

\* the timestamps of a list never decrease
Ascending(rows) ==
    \A i \in DOMAIN rows : \A j \in DOMAIN rows :
        i < j => rows[i].timestamp.text =< rows[j].timestamp.text

\* the timestamps of a list never increase
Descending(rows) ==
    \A i \in DOMAIN rows : \A j \in DOMAIN rows :
        i < j => rows[i].timestamp.text >= rows[j].timestamp.text

\* C25: what get_session_data returns is, once each and in ascending order
\* of timestamp, readings of the store that belong to the session asked for
\* and lie within the bounds given (a bound left out does not restrict),
\* and every such reading stored before the query began is among them; a
\* reading of another session is never returned.
C25_RangeQuery ==
    (answer # None /\ answer.q.op = "range") =>
        /\ \A k \in DOMAIN answer.rows :
              /\ InRange(answer.rows[k], answer.q)
              /\ answer.rows[k] \in Range(answer.after)
        /\ \A r \in Range(answer.q.table) :
              InRange(r, answer.q) => r \in Range(answer.rows)
        /\ Distinct(answer.rows)
        /\ Ascending(answer.rows)

\* a range query with an upper bound returned the reading made at the
\* bound and left out a later reading of the session and a reading of
\* another session
C25_Witness ==
    /\ answer # None
    /\ answer.q.op = "range"
    /\ answer.q.session_id = "S1"
    /\ answer.q.end_time = Datetime(0)
    /\ \E k \in DOMAIN answer.rows :
          fromisoformat(answer.rows[k].timestamp) = Datetime(0)
    /\ \E r \in Range(answer.q.table) :
          r.session_id = "S1" /\ r.timestamp.text > 0
    /\ \E r \in Range(answer.q.table) : r.session_id = "S0"

\* row r is of the session of recent query q and later than the window's
\* start: the time of the call less the window
InWindow(r, q) ==
    /\ r.session_id = q.session_id
    /\ fromisoformat(r.timestamp).datetime > q.at.datetime - q.seconds

\* C26: what get_recent_telemetry returns is, once each and most recent
\* first, readings of the store that belong to the session and are later
\* than the time of the call less the window, and every such reading
\* stored before the query began is among them: readings made within one
\* second are all returned by a window of 600 seconds.
C26_RecentQuery ==
    (answer # None /\ answer.q.op = "recent") =>
        /\ \A k \in DOMAIN answer.rows :
              /\ InWindow(answer.rows[k], answer.q)
              /\ answer.rows[k] \in Range(answer.after)
        /\ \A r \in Range(answer.q.table) :
              InWindow(r, answer.q) => r \in Range(answer.rows)
        /\ Distinct(answer.rows)
        /\ Descending(answer.rows)

\* a window of 600 seconds returned all three readings of the session,
\* made within one second and not all at the same instant
C26_Witness ==
    /\ answer # None
    /\ answer.q.op = "recent"
    /\ answer.q.seconds = 600
    /\ Len(answer.rows) = 3
    /\ answer.rows[1].timestamp.text = answer.rows[3].timestamp.text + 1
    /\ \A r \in Range(telemetry_data) :
          r.session_id = answer.q.session_id => r \in Range(answer.rows)

\* the reading the worker is at comes back from get_session_data, asked
\* for its session with both bounds at the reading's own timestamp, with
\* its pid, value and unit and a timestamp of the same instant
ReadBack ==
    LET point == data_batch[idx]
        t == fromisoformat(point.timestamp)
        back == Dicts(get_session_data(current_session_id, t, t))
    IN \E k \in DOMAIN back :
          /\ back[k].pid = point.pid
          /\ back[k].value = point.value
          /\ back[k].unit = point.unit
          /\ fromisoformat(back[k].timestamp) = t

\* the worker's await of insert_telemetry returns
WorkerInserts == wpc = "insert" /\ wpc' = "evaluate"

\* C27: a reading written with insert_telemetry comes back from
\* get_session_data over bounds that exactly span it with the pid, value,
\* unit and timestamp it carried; here for the readings the worker
\* persists from the source, right after each insert.
C27_RoundTrip == [][WorkerInserts => ReadBack']_vars

\* row r is one that query q asks for
Asked(r, q) ==
    IF q.op = "range" THEN InRange(r, q) ELSE InWindow(r, q)

\* reading r is older than the cutoff
Older(r, cutoff) ==
    fromisoformat(r.timestamp).datetime < cutoff.datetime

\* the readings the cleanup deleted that were stored when the answered
\* query began and that the query asks for
Deleted ==
    { r \in Range(pruned.before) :
        /\ Older(r, pruned.cutoff)
        /\ r \in Range(answer.q.table)
        /\ Asked(r, answer.q) }

\* an answer holds all of the readings a cleanup deleted or none of them
AllOrNone ==
    (pruned # None /\ answer # None) =>
        \/ Deleted \subseteq Range(answer.rows)
        \/ Deleted \cap Range(answer.rows) = {}

\* a run of cleanup_old_data
Cleans == calls'.cleanups # calls.cleanups

\* a cleanup takes its cutoff a number of days before now, deletes the
\* readings older than it and nothing else
ExactCleanup ==
    Cleans =>
        /\ \E d \in Days : pruned'.cutoff = Datetime(now - d * SecondsPerDay)
        /\ telemetry_data' =
              SelectSeq(telemetry_data, LAMBDA r : ~Older(r, pruned'.cutoff))
        /\ telemetry_sessions' = telemetry_sessions
        /\ alert_history' = alert_history

\* C28: cleanup_old_data deletes exactly the readings whose timestamp is
\* older than the cutoff and leaves every other reading, every session and
\* the alert history as they were; a query that runs while cleanups and
\* inserts go on sees all of a cleanup's deletions or none of them.
C28_CleanupExact == []AllOrNone /\ [][ExactCleanup]_vars

\* a cleanup deleted a reading and kept one made at its cutoff or later,
\* with a session and an alert on record, and a query that asks for the
\* deleted reading was answered without it
C28_Witness ==
    /\ pruned # None
    /\ answer # None
    /\ \E r \in Range(pruned.before) :
          /\ Older(r, pruned.cutoff)
          /\ Asked(r, answer.q)
          /\ r \notin Range(answer.rows)
    /\ \E r \in Range(pruned.before) : ~Older(r, pruned.cutoff)
    /\ Len(answer.rows) >= 1
    /\ telemetry_sessions # <<>>
    /\ alert_history # <<>>

\* evaluate() returns to the worker, having awaited db.log_alert once for
\* each alert it returns
EvaluateReturns == wpc = "evaluate" /\ wpc' = "push"

\* a step keeps the records of alert_history as they are and in place, and
\* adds one record for each call of log_alert made in it
AppendOnly ==
    /\ Len(alert_history') >= Len(alert_history)
    /\ SubSeq(alert_history', 1, Len(alert_history)) = alert_history
    /\ Len(alert_history') - Len(alert_history) =
          IF EvaluateReturns THEN Len(data_batch'[idx].alerts) ELSE 0

\* C29: log_alert only appends: each call adds exactly one record to the
\* alert history, and whatever the store does next (inserts, further
\* alerts, cleanups, queries) every record written earlier stays, unchanged.
C29_AlertsAppendOnly == [][AppendOnly]_vars

\* an alert is on record, a cleanup whose cutoff is later than the alert
\* has run since, and an insert by another caller and a query were made
C29_Witness ==
    /\ alert_history # <<>>
    /\ pruned # None
    /\ Older(alert_history[1], pruned.cutoff)
    /\ answer # None
    /\ calls.inserts = MaxInserts

(***************************************************************************)
(* Claims about the reading objects of the worker, under Spec.             *)
(***************************************************************************)
\* the worker is still at the batch it pulled last
SameBatch == pulled' = pulled

\* C31: a reading is never mutated after its creation: while the worker is
\* at a batch, the reading objects the source put in it stay as the source
\* made them (the alerts are attached to a new payload, not to them).
C31_ReadingNotMutated == [][SameBatch => data_batch' = data_batch]_vars

(***************************************************************************)
(* Claims about the simulator, under SpecSimulator.                        *)
(***************************************************************************)
\* r is a reading of pid with a value within the PID's configured range
InConfiguredRange(r, pid) ==
    /\ r # None
    /\ r.pid = pid
    /\ r.unit = Config(pid).unit
    /\ Config(pid).min =< r.value
    /\ r.value =< Config(pid).max

\* C32: read_pid returns None for a PID that is not configured and
\* otherwise a reading of that PID whose value lies within the PID's
\* [min, max], whatever reads and scenario changes came before (reads of
\* RPM and BOOST raise the current values of other PIDs); read_all returns
\* one such reading per configured PID, in the order of PIDS.
C32_ReadsInRange ==
    simulator.out # None =>
        IF simulator.out.call = "read_pid"
        THEN IF simulator.out.pid \in Range(SimulatorPIDS)
             THEN InConfiguredRange(simulator.out.result, simulator.out.pid)
             ELSE simulator.out.result = None
        ELSE /\ Len(simulator.out.result) = Len(SimulatorPIDS)
             /\ \A i \in DOMAIN SimulatorPIDS :
                   InConfiguredRange(simulator.out.result[i], SimulatorPIDS[i])

\* read_all has returned the intake temperature at its maximum, and its
\* read of BOOST has since raised the current intake temperature above
\* the maximum
C32_Witness ==
    /\ simulator.out # None
    /\ simulator.out.call = "read_all"
    /\ simulator.out.result[2].value = Config("INTAKE_TEMP").max
    /\ simulator.current_values["INTAKE_TEMP"] > Config("INTAKE_TEMP").max
    /\ simulator.reads = 2

(***************************************************************************)
(* Claims about the MockECU, under SpecMockECU.                            *)
(***************************************************************************)
\* no call of stop_streaming is under way and the calls of start_streaming
\* and stop_streaming so far were made one after the other
CallsInSequence == stop.pc = "idle" /\ ~mock_ecu.overlapped

\* C33: after any sequence of start_streaming and stop_streaming calls
\* there is exactly one stream task per configured PID, the one self._tasks
\* holds, while is_streaming() is true, and none while it is false (so
\* start_streaming while streaming starts no further task and
\* stop_streaming while not streaming does nothing).
C33_OneTaskPerPid ==
    CallsInSequence =>
        \A pid \in MockPIDS :
            IF mock_ecu._streaming
            THEN Live(pid) = {mock_ecu._tasks[pid]}
            ELSE Live(pid) = {} /\ mock_ecu._tasks[pid] = NoTask

\* start, start again, stop and start were called one after the other:
\* two tasks have finished and one task per PID is at work
C33_Witness ==
    /\ CallsInSequence
    /\ mock_ecu.calls = 4
    /\ mock_ecu._streaming
    /\ Len(tasks) = 4
    /\ \A pid \in MockPIDS : Cardinality(Live(pid)) = 1
    /\ mock_ecu.invoked > 0

\* read_pid returns a data point
ReadsPid == mock_ecu'.reads # mock_ecu.reads

\* the data point read_pid returns carries a warning exactly when the PID
\* has a threshold, the value seen before was at the threshold and the new
\* value is not; the new value is then the value seen before
WarningExact ==
    ReadsPid =>
        LET pid == mock_ecu'.out.pid_name
            value == mock_ecu'.out.converted_value
            before == mock_ecu._previous_values[pid]
        IN IF warning_threshold(pid) = None
           THEN /\ ~mock_ecu'.out.warning
                /\ mock_ecu'._previous_values[pid] = before
           ELSE /\ mock_ecu'.out.warning <=>
                     (before = warning_threshold(pid)
                        /\ value # warning_threshold(pid))
                /\ mock_ecu'._previous_values[pid] = value

\* C34: for a PID with a warning threshold _check_warning returns a warning
\* exactly when the previously seen value equals the threshold and the new
\* value differs from it, and it records the new value as the previous
\* one: of consecutive values off the threshold only the first after a
\* value at the threshold gets a warning.
C34_WarningOnLeaving == [][WarningExact]_vars

\* the third read gave a second value off the threshold in a row and no
\* warning
C34_Witness ==
    /\ mock_ecu.reads = 3
    /\ mock_ecu.out.pid_name = "oar"
    /\ mock_ecu.out.previous = Float(0)
    /\ mock_ecu.out.converted_value = Float(0)
    /\ ~mock_ecu.out.warning

\* a stream task invokes a registered callback
Invokes == mock_ecu'.invoked # mock_ecu.invoked

\* C35: once stop_streaming has returned no registered callback is invoked
\* until start_streaming is called again, also when stop_streaming finds a
\* task inside a callback or start_streaming is called while stop_streaming
\* waits for the tasks.  (mock_ecu.quiet holds from the return of a
\* stop_streaming call during which start_streaming was not called, until
\* start_streaming is called.)
C35_QuietAfterStop == [][Invokes => ~mock_ecu.quiet]_vars

\* the handlers of websocket_endpoint that have registered their queue and
\* have not left the finally clause yet
RunningHandlers == {h \in Handlers : hpc[h] \in {"get", "send", "unregister"}}

\* C38: a queue registered by a WebSocket handler is unregistered when the
\* handler exits: after any sequence of connects, disconnects and publishes
\* the client set of the broadcaster holds only queues of handlers that are
\* still running, and none of a handler that has ended.
C38_OnlyRunningHandlers ==
    /\ clients \subseteq RunningHandlers
    /\ \A h \in Handlers : hpc[h] = "closed" => h \notin clients

\* a handler that got a payload has ended after a failed send, while the
\* other one is still registered
C38_Witness ==
    \E h \in Handlers :
        /\ hpc[h] = "closed"
        /\ h \in DOMAIN delivered
        /\ delivered[h] # <<>>
        /\ clients = Handlers \ {h}

\* the two's-complement value of the 16-bit word n
TwosComplement16(n) == IF n >= 32768 THEN n - 65536 ELSE n

\* C39: read_data turns the two OAR data bytes A, B into the signed 16-bit
\* integer that is the two's-complement value of A*256+B, in the range
\* -32768..32767, before it scales it by 1/1000, for every pair of byte
\* values.
C39_SignedSixteenBit ==
    LET out == obd_bridge.out
    IN  (out.polled /\ Len(out.oar_data) >= 2) =>
           /\ out.oar.float \in -32768 .. 32767
           /\ out.oar =
                 Float(TwosComplement16(out.oar_data[1] * 256
                                           + out.oar_data[2]))

\* the data loop has ended only with ecu.running false, or by cancellation
EndsOnlyStopped ==
    /\ gateway.task = "done" => ~gateway.running
    /\ gateway.task = "cancelled" => gateway.must_cancel

\* a pass in which read_data, parse_all or broadcast raised: the exception
\* is logged and the task is in the sleep of the handler
RaisedIsLogged ==
    (/\ Len(gateway'.outcomes) > Len(gateway.outcomes)
     /\ gateway'.outcomes[Len(gateway'.outcomes)] # "ok")
       => /\ gateway'.errors = gateway.errors + 1
          /\ gateway'.task = "error_sleep"

\* out of the sleep of the handler the loop goes on with its next pass,
\* unless ecu.running is false or the task was cancelled
NextIteration ==
    (gateway.task = "error_sleep" /\ gateway'.task # "error_sleep")
       => gateway'.task = IF gateway.must_cancel THEN "cancelled"
                          ELSE IF ~gateway.running THEN "done"
                          ELSE "read"

\* C36: an exception raised while the data loop reads, parses or
\* broadcasts is logged and the loop continues with its next iteration; the
\* loop ends only when ecu.running is false or its task is cancelled.
C36_LoopSurvivesErrors ==
    /\ []EndsOnlyStopped
    /\ [][RaisedIsLogged /\ NextIteration]_vars

\* read_data raised in the first pass, parse_all in the second, and the
\* third pass broadcast its payload
C36_Witness ==
    /\ gateway.outcomes = <<"read_data", "parse_all", "ok">>
    /\ gateway.errors = 2
    /\ gateway.broadcasts = 1
    /\ gateway.task = "sleep"
    /\ gateway.running

\* once stop() has returned the data task has finished and nothing has been
\* broadcast since
StoppedForGood ==
    gateway.stop_pc = "returned" =>
       /\ gateway.task \in Finished
       /\ gateway.broadcasts = gateway.mark

\* C37: TelemetryGateway.stop always completes, and after it has returned
\* the data loop task has finished and no further payload is broadcast to
\* any subscriber.
C37_StopCompletes ==
    /\ []StoppedForGood
    /\ (gateway.stop_pc = "disconnect") ~> (gateway.stop_pc = "returned")

\* stop() was called while the data task waited for the lock of the
\* broadcaster after two broadcasts, and has returned with the task
\* cancelled
C37_Witness ==
    /\ gateway.stop_pc = "returned"
    /\ gateway.task = "cancelled"
    /\ gateway.iterations = 3
    /\ gateway.broadcasts = 2
    /\ gateway.mark = 2

====
